---- MODULE Spec2Model ----
(***************************************************************************)
(* Model of the alert state machine of the GPON traffic monitor:           *)
(*   services/AlertManager.js        (src/.eslintrc.js, lines 32-315)      *)
(*   services/NotificationService.js (src/unnamed/part_008, lines 1-240)   *)
(*   config/default.js               (src/unnamed/part_007)                *)
(*   db.js                           (src/db.js, table alerts)             *)
(*   monitor.js                      (src/monitor.js, checkTraffic)        *)
(*                                                                         *)
(* Spec: one checkAlert call is in flight at a time (sequential cycles).   *)
(* SpecMonitor: the poll cycles of monitor.js, two of which may overlap.   *)
(* Every await of checkAlert is a step boundary; the process may be        *)
(* killed and restarted between any two steps, and every store write may   *)
(* throw.  Times are milliseconds (Date.now()); the store keeps seconds    *)
(* (unixepoch()).                                                          *)
(***************************************************************************)
EXTENDS Integers, Sequences, FiniteSets, TLC

(* ---------------- program constants ---------------- *)
Null == 0
firstAlertDelayMinutes == 10
secondAlertDelayHours == 3
recoveryDelayMinutes == 1
alertDelayMs == firstAlertDelayMinutes * 60 * 1000
secondAlertMs == secondAlertDelayHours * 60 * 60 * 1000
recoveryDelayMs == recoveryDelayMinutes * 60 * 1000
MAX_ATTEMPTS == 5
maxReconnectAttempts == 10
OTP_VALIDITY_MS == 10 * 60 * 1000
LOCKOUT_DURATION_MS == 30 * 60 * 1000

(* ---------------- bounds of the model ---------------- *)
MaxTicks == 2
MaxAlerts == 2
MaxHistory == 1
MaxCount == 2
MaxCycleStarts == 2
MaxRows == 401
MaxNameLen == 2
MaxOtpCalls == 7
MaxOtps == 2

Names == {"GPON-A"}
Samples == {0, 10}
Thresholds == {10}
BootTimes == {1700}
Steps == {alertDelayMs, secondAlertMs}
Errors == {"ETIMEDOUT"}
GponNames == {"GPON-A", "GPON-B"}
Cycles == {1, 2}
NoCall == [name |-> "none", totalKb |-> 0, threshold |-> 0, now |-> 0, aliased |-> FALSE]

VARIABLES
    clock,          \* Date.now(), ms
    ticks,          \* number of clock advances so far (bounded by MaxTicks)
    config,         \* config.alertConfig / config.email / config.telegram
    channels,       \* NotificationService.channels
    tracking,       \* AlertManager.tracking: Map name -> {first, alerted, second}
    alerts,         \* table alerts, in rowid order
    alert_history,  \* table alert_history, in rowid order
    pc,             \* position of the checkAlert call in flight
    cur,            \* its arguments, its `now`, and whether `track` is the Map's object
    track,          \* its local `track`
    sends,          \* the channel.send promises of the last sendAlert call
    results,        \* the value the last sendAlert call returned
    dispatched,     \* stages for which this checkAlert call invoked sendAlert
    failed,         \* store writes that threw during this checkAlert call
    outcome,        \* state of the promise returned by checkAlert
    repeat,         \* this call has the arguments and clock of the call before it
    sentFor,        \* per alerts row: sendAlert calls made for it, by stage (history)
    boot,           \* how restoreState ended at the last start, until the first checkAlert
    statuses,       \* table statuses: name -> status ("none": no row)
    traffic_log,    \* table traffic_log, in rowid order
    health_metrics, \* table health_metrics, in rowid order
    mikrotikApiErrors,  \* metrics.mikrotikApiErrors, label monitor_error
    activeGponCount,    \* metrics.activeGponCount
    cyc,            \* the checkTraffic calls in flight (setInterval does not wait for them)
    started,        \* number of checkTraffic calls started so far (bounded by MaxCycleStarts)
    proc,           \* "up", or "crashed" after an unhandled promise rejection
    trafficRows,    \* routes/traffic.js: the rows of the entity in the 24 h window
    trafficResponse, \* routes/traffic.js: the body of the response, once sent
    tgAlert,        \* NotificationService.sendTelegram: its argument
    tgText,         \* the text it has posted with parse_mode HTML ("none": nothing yet)
    profile,        \* table profiles, the twofa_* columns of the one user
    otpCall,        \* the sendOTP / verifyOTP calls in flight (one per request)
    otpRet,         \* what the last call of each request slot returned
    otpIssued,      \* number of codes generateOTP has made; the next code is otpIssued + 1
    otpStarted,     \* number of sendOTP / verifyOTP calls started (bounded by MaxOtpCalls)
    otpFails,       \* verifyOTP calls that found the code wrong since the last success or unlock (history)
    otpAccepted,    \* the codes of the verifyOTP calls that returned valid = true (history)
    otpOverlap,     \* two calls have been in flight at the same time (history)
    reachable,      \* the router accepts connections and answers commands (environment)
    connected,      \* mikrotik.js: let connected
    reconnectAttempts, \* mikrotik.js: let reconnectAttempts
    writeCall,      \* where each write() call in flight is suspended
    writeRet,       \* how the last write() call of each caller ended
    tries,          \* api.connect() calls the caller's current connect() call has made (history)
    wait            \* the delay of the backoff timer the caller is waiting on, in ms (0: none)

monitorVars == <<statuses, traffic_log, health_metrics, mikrotikApiErrors, activeGponCount,
                 cyc, started, proc>>

trafficVars == <<trafficRows, trafficResponse>>

\* the state of the parts of the program other than the alert state machine and the
\* poll cycle
renderVars == <<tgAlert, tgText>>

otpVars == <<profile, otpCall, otpRet, otpIssued, otpStarted, otpFails, otpAccepted, otpOverlap>>

routerVars == <<reachable, connected, reconnectAttempts, writeCall, writeRet, tries, wait>>

extVars == <<trafficVars, renderVars, otpVars, routerVars>>

\* the state of the alert state machine and of the poll cycle
coreVars == <<clock, ticks, config, channels, tracking, alerts, alert_history, sentFor>>

callVars == <<pc, cur, track, sends, results, dispatched, failed, outcome, repeat, boot>>

vars == <<clock, ticks, config, channels, tracking, alerts, alert_history, pc, cur,
          track, sends, results, dispatched, failed, outcome, repeat, sentFor, boot,
          statuses, traffic_log, health_metrics, mikrotikApiErrors, activeGponCount,
          cyc, started, proc, trafficRows, trafficResponse, tgAlert, tgText,
          profile, otpCall, otpRet, otpIssued, otpStarted, otpFails, otpAccepted, otpOverlap,
          reachable, connected, reconnectAttempts, writeCall, writeRet, tries, wait>>

(* ---------------- pure helpers ---------------- *)
Min(a, b) == IF a < b THEN a ELSE b

unixepoch(ms) == ms \div 1000

FreshTrack == [first |-> Null, alerted |-> FALSE, second |-> FALSE]

\* a checkTraffic slot with no call in flight; evald, sampled and logFailed record the
\* rows for which the call in flight called checkAlert, wrote a sample, failed to
\* write one, and ended how the last call of the slot ended
NoFrame ==
    [st |-> "idle", rows |-> <<>>, stat |-> [n \in {} |-> "none"], now |-> 0,
     i |-> 0, activeCount |-> 0, cnow |-> 0, aliased |-> FALSE, track |-> FreshTrack,
     sends |-> <<>>, evald |-> {}, sampled |-> {}, logFailed |-> {}, ended |-> "no"]

OpenRows(tbl, name) == {i \in 1..Len(tbl) : tbl[i].name = name /\ tbl[i].end_time = Null}

IsEnabled(c) == c.enabled

Put(map, name, value) == [n \in (DOMAIN map) \cup {name} |-> IF n = name THEN value ELSE map[n]]

Delete(map, name) == [n \in (DOMAIN map) \ {name} |-> map[n]]

EmptyMap == [n \in {} |-> FreshTrack]

MaxOf(S) == CHOOSE i \in S : \A j \in S : j <= i

(* ---------------- NotificationService ---------------- *)
\* initializeChannels: a channel is registered when its credentials are configured,
\* and is enabled unless alertConfig.enableX is false.
initializeChannels(cfg) ==
    (IF cfg.emailConfigured THEN <<[name |-> "email", enabled |-> cfg.enableEmail]>> ELSE <<>>)
    \o (IF cfg.telegramEnabled THEN <<[name |-> "telegram", enabled |-> cfg.enableTelegram]>> ELSE <<>>)

\* this.channels.filter(c => c.enabled)
EnabledChannels(chs) == SelectSeq(chs, IsEnabled)

\* enabledChannels.map(async channel => ...): every channel.send is called, in order,
\* before any of them settles.
StartSends(chs) ==
    [i \in 1..Len(EnabledChannels(chs)) |-> [channel |-> EnabledChannels(chs)[i].name, outcome |-> "pending"]]

\* ChannelTask without the try/catch around channel.send
ChannelTask_nocatch(s) ==
    IF s.outcome = "ok"
    THEN [status |-> "fulfilled", value |-> [channel |-> s.channel, success |-> TRUE]]
    ELSE [status |-> "rejected", reason |-> s.outcome]

\* the async arrow function of sendAlert with its try/catch, as settled by Promise.allSettled
ChannelTask(s) ==
    IF s.outcome = "ok"
    THEN [status |-> "fulfilled", value |-> [channel |-> s.channel, success |-> TRUE]]
    ELSE [status |-> "fulfilled", value |-> [channel |-> s.channel, success |-> FALSE, error |-> s.outcome]]

\* the array sendAlert returns
sendAlertResults(ss) == [i \in 1..Len(ss) |-> ChannelTask(ss[i])]

\* a join that does not wait for the sends
AllSettled_nowait(ss) == TRUE

AllSettled(ss) == \A i \in 1..Len(ss) : ss[i].outcome # "pending"

(* ---------------- store operations of AlertManager ---------------- *)
\* createAlertRecord that inserts nothing
createAlertRecord_noInsert(tbl, name, now, ok) == tbl

\* INSERT INTO alerts (name, start_time) VALUES (?, unixepoch())
createAlertRecord(tbl, name, now, ok) ==
    IF ok
    THEN Append(tbl, [name |-> name, start_time |-> unixepoch(now), end_time |-> Null,
                      notified_first |-> 0, notified_second |-> 0])
    ELSE tbl

\* the try/catch of createAlertRecord swallows the store error
createAlertRecordThrows(ok) == FALSE

\* setNotifiedFirst run only when some channel delivered the notification
setNotifiedFirst_onlyIfDelivered(tbl, name, ok) ==
    IF ok /\ (\E k \in 1..Len(sends) : sends[k].outcome = "ok")
    THEN [i \in 1..Len(tbl) |-> IF i \in OpenRows(tbl, name) THEN [tbl[i] EXCEPT !.notified_first = 1] ELSE tbl[i]]
    ELSE tbl

\* UPDATE alerts SET notified_first = 1 WHERE name = ? AND end_time IS NULL
setNotifiedFirst(tbl, name, ok) ==
    IF ok
    THEN [i \in 1..Len(tbl) |-> IF i \in OpenRows(tbl, name) THEN [tbl[i] EXCEPT !.notified_first = 1] ELSE tbl[i]]
    ELSE tbl

\* UPDATE alerts SET notified_second = 1 WHERE name = ? AND end_time IS NULL
setNotifiedSecond(tbl, name, ok) ==
    IF ok
    THEN [i \in 1..Len(tbl) |-> IF i \in OpenRows(tbl, name) THEN [tbl[i] EXCEPT !.notified_second = 1] ELSE tbl[i]]
    ELSE tbl

\* sendFirstAlert / sendSecondAlert without their try/catch
sendStageAlertThrows_nocatch(ok) == ~ok

\* the try/catch around the body of sendFirstAlert / sendSecondAlert
sendStageAlertThrows(ok) == FALSE

\* resolveAlert that closes nothing
resolveAlert_keepsOpen(tbl, name, now, ok) == tbl

\* UPDATE alerts SET end_time = unixepoch() WHERE name = ? AND end_time IS NULL
resolveAlert(tbl, name, now, ok) ==
    IF ok
    THEN [i \in 1..Len(tbl) |-> IF i \in OpenRows(tbl, name) THEN [tbl[i] EXCEPT !.end_time = unixepoch(now)] ELSE tbl[i]]
    ELSE tbl

\* the try/catch of resolveAlert swallows the store error
resolveAlertThrows(ok) == FALSE

\* INSERT INTO alert_history (...) VALUES (?, ?, ?, ?, unixepoch()), errors swallowed
recordAlertHistory(hist, name, alertType, trafficKb, thresholdKb, now, ok) ==
    IF ok
    THEN Append(hist, [name |-> name, alert_type |-> alertType, traffic_kb |-> trafficKb,
                       threshold_kb |-> thresholdKb, triggered_at |-> unixepoch(now)])
    ELSE hist

\* restoreState that takes every open record as already notified once
restoreState_alertedAlways(tbl) ==
    [n \in {m \in Names : OpenRows(tbl, m) # {}} |->
        LET row == tbl[MaxOf(OpenRows(tbl, n))]
        IN [first |-> row.start_time * 1000, alerted |-> TRUE,
            second |-> (row.notified_second = 1)]]

\* restoreState that does not read the notified flags back
restoreState_dropsFlags(tbl) ==
    [n \in {m \in Names : OpenRows(tbl, m) # {}} |->
        LET row == tbl[MaxOf(OpenRows(tbl, n))]
        IN [first |-> row.start_time * 1000, alerted |-> FALSE, second |-> FALSE]]

\* restoreState: SELECT ... FROM alerts WHERE end_time IS NULL, then tracking.set per row
\* in result order, so the last open row of a name is the one that stays.
restoreState(tbl) ==
    [n \in {m \in Names : OpenRows(tbl, m) # {}} |->
        LET row == tbl[MaxOf(OpenRows(tbl, n))]
        IN [first |-> row.start_time * 1000,
            alerted |-> (row.notified_first = 1),
            second |-> (row.notified_second = 1)]]

(* ---------------- history of dispatches per alerts row ---------------- *)
\* first, second: sendAlert calls made for the row, by stage; seen: Date.now() of the
\* checkAlert call that inserted the row (the row itself keeps whole seconds)
NoSent == [first |-> 0, second |-> 0, seen |-> 0]

NewSent(now) == [NoSent EXCEPT !.seen = now]

CountDispatch(sf, tbl, name, stage) ==
    IF EnabledChannels(channels) = <<>> \/ stage \notin {"first", "second"} THEN sf
    ELSE [i \in 1..Len(sf) |->
            IF i \in OpenRows(tbl, name)
            THEN [sf[i] EXCEPT ![stage] = Min(@ + 1, MaxCount)]
            ELSE sf[i]]

(* ---------------- checkAlert ---------------- *)
\* sendRecoveryNotification that dispatches whatever the configuration says
RecoveryEnabled_always(cfg) == TRUE

\* line 225: if (config.alertConfig.sendRecoveryNotifications)
RecoveryEnabled(cfg) == cfg.sendRecoveryNotifications

\* the first-alert check without its `!track.alerted` conjunct
FirstDue_ignoresFlag(tr, now) == now - tr.first >= alertDelayMs

\* the record test that is true on every below-threshold sample
NeedsRecord_always(tr) == TRUE

\* line 97: if (!track.first)
NeedsRecord(tr) == tr.first = Null

\* line 109
FirstDue(tr, now) == ~tr.alerted /\ now - tr.first >= alertDelayMs

\* line 115
SecondDue(tr, now) == tr.alerted /\ ~tr.second /\ now - tr.first >= secondAlertMs

SendPc(stage) == IF stage = "first" THEN "first_send"
                 ELSE IF stage = "second" THEN "second_send" ELSE "recovery_send"

\* notificationService.sendAlert({..., type: stage}) is called and awaited
Invoke(stage, name, tr, trk, disp, sf, tbl) ==
    [pc |-> SendPc(stage), track |-> tr, tracking |-> trk, sends |-> StartSends(channels),
     dispatched |-> Append(disp, stage), sentFor |-> CountDispatch(sf, tbl, name, stage)]

\* lines 114-120: the second-alert check and tracking.set
SecondCheck(name, tr, now, trk, snd, disp, sf, tbl) ==
    IF SecondDue(tr, now)
    THEN Invoke("second", name, tr, trk, disp, sf, tbl)
    ELSE [pc |-> "idle", track |-> tr, tracking |-> Put(trk, name, tr), sends |-> snd,
          dispatched |-> disp, sentFor |-> sf]

\* lines 108-120: the first-alert check, then the second-alert check
FirstCheck(name, tr, now, trk, snd, disp, sf, tbl) ==
    IF FirstDue(tr, now)
    THEN Invoke("first", name, tr, trk, disp, sf, tbl)
    ELSE SecondCheck(name, tr, now, trk, snd, disp, sf, tbl)

\* an exception leaves checkAlert: the promise is rejected, nothing after the throw runs
Rejected(tr, trk, snd, disp, sf) ==
    [pc |-> "rejected", track |-> tr, tracking |-> trk, sends |-> snd, dispatched |-> disp, sentFor |-> sf]

Apply(r) ==
    /\ pc' = IF r.pc = "rejected" THEN "idle" ELSE r.pc
    /\ outcome' = IF r.pc = "rejected" THEN "rejected" ELSE IF r.pc = "idle" THEN "fulfilled" ELSE "pending"
    /\ track' = IF r.pc \in {"idle", "rejected"} THEN FreshTrack ELSE r.track
    /\ tracking' = r.tracking
    /\ sends' = IF r.pc \in {"idle", "rejected"} THEN <<>> ELSE r.sends
    /\ dispatched' = r.dispatched
    /\ sentFor' = r.sentFor

\* checkAlert from its entry to its first await (or to its end when nothing is awaited)
CheckAlertBegin(name, totalKb, threshold) ==
    /\ pc = "idle"
    /\ Len(alert_history) < MaxHistory
    /\ LET now == clock
           inMap == name \in DOMAIN tracking
           t0 == IF inMap THEN tracking[name] ELSE FreshTrack
       IN /\ cur' = [name |-> name, totalKb |-> totalKb, threshold |-> threshold,
                     now |-> now, aliased |-> inMap]
          /\ repeat' = (/\ outcome = "fulfilled"
                        /\ cur.name = name /\ cur.totalKb = totalKb
                        /\ cur.threshold = threshold /\ cur.now = now)
          /\ results' = <<>>
          /\ boot' = "running"
          /\ IF totalKb < threshold
             THEN \E ok \in BOOLEAN :
                    LET creating == NeedsRecord(t0)
                        t1 == IF creating THEN [t0 EXCEPT !.first = now] ELSE t0
                        tbl == IF creating THEN createAlertRecord(alerts, name, now, ok) ELSE alerts
                        sf == IF creating /\ ok THEN Append(sentFor, NewSent(now)) ELSE sentFor
                    IN /\ creating => Len(alerts) < MaxAlerts
                       /\ creating \/ ok
                       /\ alerts' = tbl
                       /\ alert_history' = alert_history
                       /\ failed' = IF creating /\ ~ok THEN {"createAlertRecord"} ELSE {}
                       /\ IF creating /\ createAlertRecordThrows(ok)
                          THEN Apply(Rejected(t1, tracking, sends, <<>>, sf))
                          ELSE Apply(FirstCheck(name, t1, now, tracking, sends, <<>>, sf, tbl))
             ELSE IF t0.first # Null
             THEN IF RecoveryEnabled(config)
                  THEN /\ Apply(Invoke("recovery", name, t0, tracking, <<>>, sentFor, alerts))
                       /\ failed' = {}
                       /\ UNCHANGED <<alerts, alert_history>>
                  ELSE \E ok \in BOOLEAN :
                       /\ alert_history' = recordAlertHistory(alert_history, name, "recovery", totalKb, 0, now, ok)
                       /\ failed' = IF ok THEN {} ELSE {"recordAlertHistory"}
                       /\ Apply([pc |-> "recovery_ret", track |-> t0, tracking |-> tracking,
                                 sends |-> sends, dispatched |-> <<>>, sentFor |-> sentFor])
                       /\ UNCHANGED alerts
             ELSE /\ Apply([pc |-> "idle", track |-> t0, tracking |-> Delete(tracking, name),
                            sends |-> sends, dispatched |-> <<>>, sentFor |-> sentFor])
                  /\ failed' = {}
                  /\ UNCHANGED <<alerts, alert_history>>
    /\ UNCHANGED <<clock, ticks, config, channels>>
    /\ UNCHANGED <<monitorVars, extVars>>

\* one channel.send(alert) promise settles: it resolves, or it throws err
SendSettle(i, result) ==
    /\ pc \in {"first_send", "second_send", "recovery_send"}
    /\ i \in 1..Len(sends)
    /\ sends[i].outcome = "pending"
    /\ sends' = [sends EXCEPT ![i].outcome = result]
    /\ UNCHANGED <<clock, ticks, config, channels, tracking, alerts, alert_history, pc, cur,
                   track, results, dispatched, failed, outcome, repeat, sentFor, boot>>
    /\ UNCHANGED <<monitorVars, extVars>>

\* sendFirstAlert after `await notificationService.sendAlert`: lines 159-174
FirstSent ==
    /\ pc = "first_send"
    /\ AllSettled(sends)
    /\ results' = sendAlertResults(sends)
    /\ \E okU \in BOOLEAN, okH \in BOOLEAN :
         /\ okU \/ okH
         /\ alerts' = setNotifiedFirst(alerts, cur.name, okU)
         /\ alert_history' = IF okU
                             THEN recordAlertHistory(alert_history, cur.name, "first", cur.totalKb, cur.threshold, clock, okH)
                             ELSE alert_history
         /\ failed' = failed \cup (IF ~okU THEN {"notified_first"} ELSE IF ~okH THEN {"recordAlertHistory"} ELSE {})
         /\ IF sendStageAlertThrows(okU)
            THEN /\ pc' = "idle" /\ outcome' = "rejected"
            ELSE /\ pc' = "first_ret" /\ outcome' = outcome
    /\ UNCHANGED <<clock, ticks, config, channels, tracking, cur, track, sends, dispatched, repeat, sentFor, boot>>
    /\ UNCHANGED <<monitorVars, extVars>>

\* checkAlert after `await this.sendFirstAlert`: lines 111-120
FirstReturn ==
    /\ pc = "first_ret"
    /\ LET t1 == [track EXCEPT !.alerted = TRUE]
           trk == IF cur.aliased THEN [tracking EXCEPT ![cur.name] = t1] ELSE tracking
       IN Apply(SecondCheck(cur.name, t1, cur.now, trk, sends, dispatched, sentFor, alerts))
    /\ results' = <<>>
    /\ UNCHANGED <<clock, ticks, config, channels, alerts, alert_history, cur, failed, repeat, boot>>
    /\ UNCHANGED <<monitorVars, extVars>>

\* sendSecondAlert after `await notificationService.sendAlert`: lines 195-210
SecondSent ==
    /\ pc = "second_send"
    /\ AllSettled(sends)
    /\ results' = sendAlertResults(sends)
    /\ \E okU \in BOOLEAN, okH \in BOOLEAN :
         /\ okU \/ okH
         /\ alerts' = setNotifiedSecond(alerts, cur.name, okU)
         /\ alert_history' = IF okU
                             THEN recordAlertHistory(alert_history, cur.name, "second", cur.totalKb, cur.threshold, clock, okH)
                             ELSE alert_history
         /\ failed' = failed \cup (IF ~okU THEN {"notified_second"} ELSE IF ~okH THEN {"recordAlertHistory"} ELSE {})
         /\ IF sendStageAlertThrows(okU)
            THEN /\ pc' = "idle" /\ outcome' = "rejected"
            ELSE /\ pc' = "second_ret" /\ outcome' = outcome
    /\ UNCHANGED <<clock, ticks, config, channels, tracking, cur, track, sends, dispatched, repeat, sentFor, boot>>
    /\ UNCHANGED <<monitorVars, extVars>>

\* checkAlert after `await this.sendSecondAlert`: lines 117-120
SecondReturn ==
    /\ pc = "second_ret"
    /\ LET t1 == [track EXCEPT !.second = TRUE]
       IN Apply([pc |-> "idle", track |-> t1, tracking |-> Put(tracking, cur.name, t1),
                 sends |-> sends, dispatched |-> dispatched, sentFor |-> sentFor])
    /\ results' = <<>>
    /\ UNCHANGED <<clock, ticks, config, channels, alerts, alert_history, cur, failed, repeat, boot>>
    /\ UNCHANGED <<monitorVars, extVars>>

\* sendRecoveryNotification after `await notificationService.sendAlert`: line 235
RecoverySent ==
    /\ pc = "recovery_send"
    /\ AllSettled(sends)
    /\ results' = sendAlertResults(sends)
    /\ \E ok \in BOOLEAN :
         /\ alert_history' = recordAlertHistory(alert_history, cur.name, "recovery", cur.totalKb, 0, clock, ok)
         /\ failed' = failed \cup (IF ok THEN {} ELSE {"recordAlertHistory"})
    /\ pc' = "recovery_ret"
    /\ UNCHANGED <<clock, ticks, config, channels, tracking, alerts, cur, track, sends,
                   dispatched, outcome, repeat, sentFor, boot>>
    /\ UNCHANGED <<monitorVars, extVars>>

\* checkAlert after `await this.sendRecoveryNotification`: lines 125-127
RecoveryReturn ==
    /\ pc = "recovery_ret"
    /\ \E ok \in BOOLEAN :
         /\ alerts' = resolveAlert(alerts, cur.name, clock, ok)
         /\ failed' = failed \cup (IF ok THEN {} ELSE {"resolveAlert"})
         /\ IF resolveAlertThrows(ok)
            THEN Apply(Rejected(track, tracking, sends, dispatched, sentFor))
            ELSE Apply([pc |-> "idle", track |-> track, tracking |-> Delete(tracking, cur.name),
                        sends |-> sends, dispatched |-> dispatched, sentFor |-> sentFor])
    /\ results' = <<>>
    /\ UNCHANGED <<clock, ticks, config, channels, alert_history, cur, repeat, boot>>
    /\ UNCHANGED <<monitorVars, extVars>>

\* the process is killed and started again: new AlertManager() runs restoreState,
\* whose SELECT may throw (caught, tracking stays empty)
Restart ==
    /\ \E readOk \in BOOLEAN :
         /\ tracking' = IF readOk THEN restoreState(alerts) ELSE EmptyMap
         /\ boot' = IF readOk THEN "restored" ELSE "restore_failed"
    /\ channels' = initializeChannels(config)
    /\ pc' = "idle"
    /\ cur' = NoCall
    /\ track' = FreshTrack
    /\ sends' = <<>>
    /\ results' = <<>>
    /\ dispatched' = <<>>
    /\ failed' = {}
    /\ outcome' = "none"
    /\ repeat' = FALSE
    /\ UNCHANGED <<clock, ticks, config, alerts, alert_history, sentFor>>
    /\ UNCHANGED <<monitorVars, extVars>>

\* wall-clock time passes; the record of a finished call (cur, dispatched, failed,
\* outcome, repeat) is kept only until the clock advances
Tick(d) ==
    /\ ticks < MaxTicks
    /\ ticks' = ticks + 1
    /\ clock' = clock + d
    /\ IF pc = "idle"
       THEN /\ cur' = NoCall /\ dispatched' = <<>> /\ failed' = {}
            /\ outcome' = "none" /\ repeat' = FALSE
       ELSE UNCHANGED <<cur, dispatched, failed, outcome, repeat>>
    /\ UNCHANGED <<config, channels, tracking, alerts, alert_history, pc, track, sends,
                   results, sentFor, boot>>
    /\ UNCHANGED <<monitorVars, extVars>>

\* the configurations the process is started with: credentials present or not,
\* alertConfig.enableEmail / enableTelegram / sendRecoveryNotifications
ChannelConfigs ==
    { [emailConfigured |-> TRUE,  enableEmail |-> TRUE,  telegramEnabled |-> TRUE,  enableTelegram |-> TRUE],
      [emailConfigured |-> TRUE,  enableEmail |-> FALSE, telegramEnabled |-> TRUE,  enableTelegram |-> TRUE],
      [emailConfigured |-> TRUE,  enableEmail |-> FALSE, telegramEnabled |-> TRUE,  enableTelegram |-> FALSE],
      [emailConfigured |-> FALSE, enableEmail |-> TRUE,  telegramEnabled |-> FALSE, enableTelegram |-> TRUE] }

Configs ==
    { [emailConfigured |-> c.emailConfigured, enableEmail |-> c.enableEmail,
       telegramEnabled |-> c.telegramEnabled, enableTelegram |-> c.enableTelegram,
       sendRecoveryNotifications |-> r] : c \in ChannelConfigs, r \in BOOLEAN }

\* the state after the process has started on a store whose alerts table is tbl:
\* the AlertManager constructor has run restoreState, no call is in flight
BootFrom(tbl) ==
    /\ clock \in BootTimes
    /\ ticks = 0
    /\ config \in Configs
    /\ channels = initializeChannels(config)
    /\ alerts = tbl
    /\ alert_history = <<>>
    /\ sentFor = [i \in 1..Len(tbl) |-> NewSent(tbl[i].start_time * 1000)]
    /\ tracking = restoreState(alerts)
    /\ pc = "idle"
    /\ cur = NoCall
    /\ track = FreshTrack
    /\ sends = <<>>
    /\ results = <<>>
    /\ dispatched = <<>>
    /\ failed = {}
    /\ outcome = "none"
    /\ repeat = FALSE
    /\ boot = "restored"
    /\ statuses = [n \in GponNames |-> IF n = "GPON-B" THEN "Active" ELSE "none"]
    /\ traffic_log = <<>>
    /\ health_metrics = <<>>
    /\ mikrotikApiErrors = 0
    /\ activeGponCount = 0
    /\ cyc = [c \in Cycles |-> NoFrame]
    /\ started = 0
    /\ proc = "up"

NoResponse == [name |-> "none", data |-> <<>>]

\* no request for the traffic history has been made
TrafficIdle == trafficRows = <<>> /\ trafficResponse = NoResponse

NoAlert == [name |-> "", ip |-> "", type |-> "none"]

\* no Telegram message has been rendered
RenderIdle == tgAlert = NoAlert /\ tgText = "none"

OtpSlots == {1, 2}

NoOtpCall == [st |-> "idle", code |-> 0, secret |-> Null, attempts |-> 0, now |-> 0, otp |-> 0, expiresAt |-> 0]

NoOtpRet == [op |-> "none", valid |-> FALSE, attemptsRemaining |-> -1, error |-> "none"]

\* the user's row after the migration that added the twofa_* columns: no code stored,
\* no failed attempt, not locked
OtpIdle ==
    /\ profile = [twofa_secret |-> Null, twofa_secret_expires |-> Null, twofa_attempts |-> 0,
                  twofa_locked_until |-> Null]
    /\ otpCall = [c \in OtpSlots |-> NoOtpCall]
    /\ otpRet = [c \in OtpSlots |-> NoOtpRet]
    /\ otpIssued = 0
    /\ otpStarted = 0
    /\ otpFails = 0
    /\ otpAccepted = <<>>
    /\ otpOverlap = FALSE

Callers == {1, 2}

\* mikrotik.js as loaded: lines 60-61
RouterIdle ==
    /\ reachable = TRUE
    /\ connected = FALSE
    /\ reconnectAttempts = 0
    /\ writeCall = [c \in Callers |-> "idle"]
    /\ writeRet = [c \in Callers |-> "none"]
    /\ tries = [c \in Callers |-> 0]
    /\ wait = [c \in Callers |-> 0]

Idle == TrafficIdle /\ RenderIdle /\ OtpIdle /\ RouterIdle

Init == BootFrom(<<>>) /\ Idle

Next ==
    \/ \E name \in Names, totalKb \in Samples, threshold \in Thresholds :
          CheckAlertBegin(name, totalKb, threshold)
    \/ \E i \in 1..2, result \in {"ok"} \cup Errors : SendSettle(i, result)
    \/ FirstSent
    \/ FirstReturn
    \/ SecondSent
    \/ SecondReturn
    \/ RecoverySent
    \/ RecoveryReturn
    \/ Restart
    \/ \E d \in Steps : Tick(d)

Spec == Init /\ [][Next]_vars

\* the same calls with poll cycles that do not fall on whole delays after the start:
\* a cycle may run half a second before a first-alert delay has passed
SkewSteps == {alertDelayMs - 500, secondAlertMs}

SkewNext ==
    \/ \E name \in Names, totalKb \in Samples, threshold \in Thresholds :
          CheckAlertBegin(name, totalKb, threshold)
    \/ \E i \in 1..2, result \in {"ok"} \cup Errors : SendSettle(i, result)
    \/ FirstSent
    \/ FirstReturn
    \/ SecondSent
    \/ SecondReturn
    \/ RecoverySent
    \/ RecoveryReturn
    \/ Restart
    \/ \E d \in SkewSteps : Tick(d)

SpecSkew == Init /\ [][SkewNext]_vars

\* the same calls in a process that is not restarted and whose store accepts every
\* write
CleanNext ==
    \/ \E name \in Names, totalKb \in Samples, threshold \in Thresholds :
          CheckAlertBegin(name, totalKb, threshold) /\ failed' = {}
    \/ \E i \in 1..2, result \in {"ok"} \cup Errors : SendSettle(i, result)
    \/ FirstSent /\ failed' = {}
    \/ FirstReturn
    \/ SecondSent /\ failed' = {}
    \/ SecondReturn
    \/ RecoverySent /\ failed' = {}
    \/ RecoveryReturn /\ failed' = {}
    \/ \E d \in Steps : Tick(d)

SpecClean == Init /\ [][CleanNext]_vars

(* ======================= monitor.js: checkTraffic ======================= *)
\* KB/s values of the poll cycle are carried as integer multiples of 1/KbUnit KB/s,
\* so that (rx + tx) / 1024 and the default threshold 0.01 are exact integers.
KbUnit == 25600

\* config.alertConfig.defaultThreshold = 0.01 KB/s
defaultThreshold == KbUnit \div 100

\* parseInt's NaN: an integer no rate of the model parses to
NaN == -2147483647

NoName == "undefined"
NoRate == "undefined"
Rates == {NoRate, "abc", "0/0", "20480/0"}

\* the status updates an administrator posts
StatusUpdates == {<<"GPON-A", "Active">>, <<"GPON-A", "Inactive">>}

\* what '/queue/simple/print' may answer: rows in router order
RouterLists ==
    { <<[name |-> "ether1", rate |-> "512/512"], [name |-> "GPON-A", rate |-> ra],
        [name |-> "GPON-B", rate |-> "20480/0"]>> : ra \in Rates }
    \cup { <<[name |-> NoName, rate |-> NoRate], [name |-> "GPON-B", rate |-> "20480/0"]>> }

Digits == <<"0", "1", "2", "3", "4", "5", "6", "7", "8", "9">>

CharAt(str, i) == SubSeq(str, i, i)

IsDigit(ch) == \E d \in 1..10 : Digits[d] = ch

DigitVal(ch) == (CHOOSE d \in 1..10 : Digits[d] = ch) - 1

\* String.prototype.startsWith
StartsWith(str, prefix) ==
    Len(str) >= Len(prefix) /\ SubSeq(str, 1, Len(prefix)) = prefix

\* String.prototype.split(sep) for a one-character separator
RECURSIVE Split(_, _)
Split(str, sep) ==
    IF \E i \in 1..Len(str) : CharAt(str, i) = sep
    THEN LET k == CHOOSE i \in 1..Len(str) :
                     CharAt(str, i) = sep /\ \A j \in 1..(i - 1) : CharAt(str, j) # sep
         IN <<SubSeq(str, 1, k - 1)>> \o Split(SubSeq(str, k + 1, Len(str)), sep)
    ELSE <<str>>

\* number of leading characters of str, from position i on, that are decimal digits
RECURSIVE DigitRun(_, _)
DigitRun(str, i) ==
    IF i <= Len(str) /\ IsDigit(CharAt(str, i)) THEN 1 + DigitRun(str, i + 1) ELSE 0

\* value of the n decimal digits of str that start at position i
RECURSIVE DigitsValue(_, _, _)
DigitsValue(str, i, n) ==
    IF n = 0 THEN 0 ELSE DigitsValue(str, i, n - 1) * 10 + DigitVal(CharAt(str, i + n - 1))

\* number of leading white space characters of str
RECURSIVE SpaceRun(_, _)
SpaceRun(str, i) ==
    IF i <= Len(str) /\ CharAt(str, i) = " " THEN 1 + SpaceRun(str, i + 1) ELSE 0

\* parseInt(str), radix 10: leading white space, an optional sign, then the longest
\* run of digits; NaN when there is no digit
parseInt(str) ==
    LET b == 1 + SpaceRun(str, 1)
        signed == b <= Len(str) /\ CharAt(str, b) \in {"+", "-"}
        d == IF signed THEN b + 1 ELSE b
        n == DigitRun(str, d)
    IN IF n = 0 THEN NaN
       ELSE IF signed /\ CharAt(str, b) = "-" THEN 0 - DigitsValue(str, d, n)
       ELSE DigitsValue(str, d, n)

\* q.rate?.split('/')[k - 1] || 0, as the string parseInt converts it to
RatePiece(rate, k) ==
    IF rate = NoRate THEN "0"
    ELSE LET pieces == Split(rate, "/")
         IN IF k > Len(pieces) \/ pieces[k] = "" THEN "0" ELSE pieces[k]

\* lines 52-53
RateRx(rate) == parseInt(RatePiece(rate, 1))

RateTx(rate) == parseInt(RatePiece(rate, 2))

\* line 54: (rx + tx) / 1024, NaN when either is NaN
TotalKb(rx, tx) == IF rx = NaN \/ tx = NaN THEN NaN ELSE (rx + tx) * (KbUnit \div 1024)

\* a < b on JavaScript numbers: false when either is NaN
Less(a, b) == a # NaN /\ b # NaN /\ a < b

\* line 25 and lines 39-42: the configuration of a queue as the cycle sees it;
\* no route of the program writes threshold_kb, so the column is NULL
QueueConfig(stat, name) ==
    IF name \in DOMAIN stat /\ stat[name] # "none"
    THEN [status |-> stat[name], threshold |-> defaultThreshold]
    ELSE [status |-> "Inactive", threshold |-> defaultThreshold]

\* line 33: q.name?.startsWith('GPON')
Monitored(q) == q.name # NoName /\ StartsWith(q.name, "GPON")

\* the skip test without the status check
Eligible_ignoresStatus(q, stat) == Monitored(q)

\* lines 33-47: the row is neither skipped for its name nor for its status
Eligible(q, stat) == Monitored(q) /\ QueueConfig(stat, q.name).status = "Active"

\* the first row at or after position i that the loop does not skip
NextEligible(rows, stat, i) ==
    IF \E j \in i..Len(rows) : Eligible(rows[j], stat)
    THEN CHOOSE j \in i..Len(rows) :
            Eligible(rows[j], stat) /\ \A k \in i..(j - 1) : ~Eligible(rows[k], stat)
    ELSE Len(rows) + 1

(* ---------------- checkAlert as called by a poll cycle ---------------- *)
InCheck(f) ==
    f.st \in {"first_send", "first_ret", "second_send", "second_ret", "recovery_send", "recovery_ret"}

\* the name of the tracked entity instead of the row's
CurName_trackedEntity(f) == "GPON-A"

CurName(f) == f.rows[f.i].name

\* line 54, for the row the cycle is at
CurKb(f) == TotalKb(RateRx(f.rows[f.i].rate), RateTx(f.rows[f.i].rate))

CurThreshold(f) == QueueConfig(f.stat, CurName(f)).threshold

\* the object the local `track` of the call refers to: the Map's entry, or an object
\* that is not (or no longer) in the Map
TrackOf(f, trk) == IF f.aliased THEN trk[CurName(f)] ELSE f.track

\* checkAlert returns: the cycle goes on with the next row
AfterCheck(f) ==
    [f EXCEPT !.st = "loop", !.i = f.i + 1, !.cnow = 0, !.aliased = FALSE,
              !.track = FreshTrack, !.sends = <<>>]

\* the call suspends in notificationService.sendAlert for a stage
CycleInvoke(f, stage, tr, trk, tbl, hist, sf) ==
    [f |-> [f EXCEPT !.st = SendPc(stage), !.sends = StartSends(channels),
                     !.track = IF f.aliased THEN FreshTrack ELSE tr],
     tracking |-> trk, alerts |-> tbl, alert_history |-> hist,
     sentFor |-> CountDispatch(sf, tbl, CurName(f), stage), detach |-> FALSE]

\* lines 114-120 for a cycle: tracking.set puts the call's object into the Map, which
\* replaces the Map's object when the call holds another one
CycleSecondCheck(f, tr, trk, tbl, hist, sf) ==
    IF SecondDue(tr, f.cnow)
    THEN CycleInvoke(f, "second", tr, trk, tbl, hist, sf)
    ELSE [f |-> AfterCheck(f), tracking |-> Put(trk, CurName(f), tr), alerts |-> tbl,
          alert_history |-> hist, sentFor |-> sf, detach |-> ~f.aliased]

\* lines 108-120 for a cycle
CycleFirstCheck(f, tr, trk, tbl, hist, sf) ==
    IF FirstDue(tr, f.cnow)
    THEN CycleInvoke(f, "first", tr, trk, tbl, hist, sf)
    ELSE CycleSecondCheck(f, tr, trk, tbl, hist, sf)

\* lines 91-129 up to the first await, for the row f.i of the cycle; the alerts and
\* alert_history writes are accepted by the store
CheckAlertEnter(f0) ==
    LET name == CurName(f0)
        now == clock
        inMap == name \in DOMAIN tracking
        t0 == IF inMap THEN tracking[name] ELSE FreshTrack
        f == [f0 EXCEPT !.cnow = now, !.aliased = inMap, !.evald = @ \cup {f0.i}]
    IN IF Less(CurKb(f0), CurThreshold(f0))
       THEN LET creating == NeedsRecord(t0)
                t1 == IF creating THEN [t0 EXCEPT !.first = now] ELSE t0
                trk == IF creating /\ inMap THEN [tracking EXCEPT ![name] = t1] ELSE tracking
                tbl == IF creating THEN createAlertRecord(alerts, name, now, TRUE) ELSE alerts
                sf == IF creating THEN Append(sentFor, NewSent(now)) ELSE sentFor
            IN CycleFirstCheck(f, t1, trk, tbl, alert_history, sf)
       ELSE IF t0.first # Null
       THEN IF RecoveryEnabled(config)
            THEN CycleInvoke(f, "recovery", t0, tracking, alerts, alert_history, sentFor)
            ELSE [f |-> [f EXCEPT !.st = "recovery_ret"], tracking |-> tracking, alerts |-> alerts,
                  alert_history |-> recordAlertHistory(alert_history, name, "recovery", CurKb(f0), 0, now, TRUE),
                  sentFor |-> sentFor, detach |-> FALSE]
       ELSE [f |-> AfterCheck(f), tracking |-> Delete(tracking, name), alerts |-> alerts,
             alert_history |-> alert_history, sentFor |-> sentFor, detach |-> FALSE]

\* a step of cycle c on entity name takes effect; when it removed or replaced the
\* Map's object, a call of the other cycle that holds that object keeps it
CommitCycle(c, r, name) ==
    /\ cyc' = [g \in Cycles |->
                IF g = c THEN r.f
                ELSE IF r.detach /\ InCheck(cyc[g]) /\ CurName(cyc[g]) = name /\ cyc[g].aliased
                THEN [cyc[g] EXCEPT !.aliased = FALSE, !.track = tracking[name]]
                ELSE cyc[g]]
    /\ tracking' = r.tracking
    /\ alerts' = r.alerts
    /\ alert_history' = r.alert_history
    /\ sentFor' = r.sentFor

(* ---------------- checkTraffic ---------------- *)
\* the traffic_log INSERT without its try/catch
LogTrafficThrows_nocatch(ok) == ~ok

\* lines 57-64: the try/catch around the traffic_log INSERT
LogTrafficThrows(ok) == FALSE

\* lines 88-97, the catch block: the error counter, then an INSERT that nothing
\* guards; when it throws, the promise of checkTraffic is rejected with no handler
\* and the process (Node.js 16+) exits
ErrorPath(c, why) ==
    /\ mikrotikApiErrors' = mikrotikApiErrors + 1
    /\ \E ok \in BOOLEAN :
         /\ health_metrics' = IF ok
                              THEN Append(health_metrics, [metric_name |-> "monitor_errors"])
                              ELSE health_metrics
         /\ proc' = IF ok THEN "up" ELSE "crashed"
    /\ cyc' = [cyc EXCEPT ![c] = [NoFrame EXCEPT !.ended = why]]

\* lines 72-86: the end of the try block (the metric's value, a duration, is left out)
Finish(c, f) ==
    /\ activeGponCount' = f.activeCount
    /\ \E ok \in BOOLEAN :
         IF ok
         THEN /\ health_metrics' = Append(health_metrics, [metric_name |-> "monitor_duration_seconds"])
              /\ cyc' = [cyc EXCEPT ![c] = [NoFrame EXCEPT !.ended = "returned"]]
              /\ UNCHANGED <<mikrotikApiErrors, proc>>
         ELSE ErrorPath(c, "metric write")
    /\ UNCHANGED <<traffic_log, tracking, alerts, alert_history, sentFor>>

\* lines 37-67 for row j: the sample is written, then checkAlert is called
Sample(c, f, j) ==
    LET q == f.rows[j]
        rx == RateRx(q.rate)
        tx == RateTx(q.rate)
    IN \E ok \in BOOLEAN :
         LET f1 == [f EXCEPT !.i = j, !.activeCount = @ + 1,
                             !.sampled = IF ok THEN @ \cup {j} ELSE @,
                             !.logFailed = IF ok THEN @ ELSE @ \cup {j}]
         IN /\ traffic_log' = IF ok
                               THEN Append(traffic_log, [name |-> q.name, rx |-> rx, tx |-> tx,
                                                         timestamp |-> f.now \div 1000])
                               ELSE traffic_log
            /\ IF LogTrafficThrows(ok)
               THEN /\ ErrorPath(c, "sample write")
                    /\ UNCHANGED <<tracking, alerts, alert_history, sentFor, activeGponCount>>
               ELSE /\ CommitCycle(c, CheckAlertEnter(f1), q.name)
                    /\ UNCHANGED <<mikrotikApiErrors, health_metrics, proc, activeGponCount>>

\* lines 32-86 from row f.i on, up to the next await or to the end of the cycle
Iterate(c, f) ==
    LET j == NextEligible(f.rows, f.stat, f.i)
    IN IF j > Len(f.rows) THEN Finish(c, f) ELSE Sample(c, f, j)

\* setInterval(checkTraffic, POLL_INTERVAL) or the initial run: a call starts whether
\* or not an earlier one has returned, and suspends in write('/queue/simple/print').
\* The clock of the poll cycle runs advances between cycle starts only: d ms have
\* passed since the start before.
StartCycle(c, d) ==
    /\ proc = "up"
    /\ started < MaxCycleStarts
    /\ cyc[c].st = "idle"
    /\ \A g \in Cycles : g < c => cyc[g].st # "idle"
    /\ d # 0 => ticks < MaxTicks
    /\ clock' = clock + d
    /\ ticks' = IF d # 0 THEN ticks + 1 ELSE ticks
    /\ cyc' = [cyc EXCEPT ![c] = [NoFrame EXCEPT !.st = "fetch"]]
    /\ started' = started + 1
    /\ UNCHANGED <<config, channels, tracking, alerts, alert_history, sentFor,
                   statuses, traffic_log, health_metrics, mikrotikApiErrors, activeGponCount, proc>>
    /\ UNCHANGED <<callVars, extVars>>

\* line 20: write('/queue/simple/print') rejects
FetchFail(c) ==
    /\ proc = "up"
    /\ cyc[c].st = "fetch"
    /\ ErrorPath(c, "router fetch")
    /\ UNCHANGED <<clock, ticks, config, channels, tracking, alerts, alert_history, sentFor,
                   statuses, traffic_log, activeGponCount, started>>
    /\ UNCHANGED <<callVars, extVars>>

\* line 20 resolves with rows; lines 23-28 read the statuses table (the read may
\* throw) and the clock; then the loop runs up to its first await
FetchReturn(c, rows) ==
    /\ proc = "up"
    /\ cyc[c].st = "fetch"
    /\ \E readOk \in BOOLEAN :
         IF readOk
         THEN Iterate(c, [cyc[c] EXCEPT !.st = "loop", !.rows = rows, !.stat = statuses,
                                        !.now = clock, !.i = 1])
         ELSE /\ ErrorPath(c, "statuses read")
              /\ UNCHANGED <<tracking, alerts, alert_history, sentFor, traffic_log, activeGponCount>>
    /\ UNCHANGED <<clock, ticks, config, channels, statuses, started>>
    /\ UNCHANGED <<callVars, extVars>>

\* line 67: `await alertManager.checkAlert` resumes; the loop goes on
LoopStep(c) ==
    /\ proc = "up"
    /\ cyc[c].st = "loop"
    /\ Iterate(c, cyc[c])
    /\ UNCHANGED <<clock, ticks, config, channels, statuses, started>>
    /\ UNCHANGED <<callVars, extVars>>

\* one channel.send(alert) promise of the call of cycle c settles
CycleSendSettle(c, k, result) ==
    /\ proc = "up"
    /\ cyc[c].st \in {"first_send", "second_send", "recovery_send"}
    /\ k \in 1..Len(cyc[c].sends)
    /\ cyc[c].sends[k].outcome = "pending"
    /\ cyc' = [cyc EXCEPT ![c].sends[k].outcome = result]
    /\ UNCHANGED <<clock, ticks, config, channels, tracking, alerts, alert_history, sentFor,
                   statuses, traffic_log, health_metrics, mikrotikApiErrors, activeGponCount,
                   started, proc>>
    /\ UNCHANGED <<callVars, extVars>>

\* sendFirstAlert / sendSecondAlert / sendRecoveryNotification after sendAlert returned
CycleStageSent(c) ==
    LET f == cyc[c]
        name == CurName(f)
    IN /\ proc = "up"
       /\ f.st \in {"first_send", "second_send", "recovery_send"}
       /\ AllSettled(f.sends)
       /\ alerts' = IF f.st = "first_send" THEN setNotifiedFirst(alerts, name, TRUE)
                    ELSE IF f.st = "second_send" THEN setNotifiedSecond(alerts, name, TRUE)
                    ELSE alerts
       /\ alert_history' =
             IF f.st = "first_send"
             THEN recordAlertHistory(alert_history, name, "first", CurKb(f), CurThreshold(f), clock, TRUE)
             ELSE IF f.st = "second_send"
             THEN recordAlertHistory(alert_history, name, "second", CurKb(f), CurThreshold(f), clock, TRUE)
             ELSE recordAlertHistory(alert_history, name, "recovery", CurKb(f), 0, clock, TRUE)
       /\ cyc' = [cyc EXCEPT ![c].st = IF f.st = "first_send" THEN "first_ret"
                                       ELSE IF f.st = "second_send" THEN "second_ret"
                                       ELSE "recovery_ret"]
       /\ UNCHANGED <<clock, ticks, config, channels, tracking, sentFor, statuses, traffic_log,
                      health_metrics, mikrotikApiErrors, activeGponCount, started, proc>>
       /\ UNCHANGED <<callVars, extVars>>

\* checkAlert after `await this.sendFirstAlert`: lines 111-120
CycleFirstReturn(c) ==
    LET f == cyc[c]
        t1 == [TrackOf(f, tracking) EXCEPT !.alerted = TRUE]
        trk == IF f.aliased THEN [tracking EXCEPT ![CurName(f)] = t1] ELSE tracking
    IN /\ proc = "up"
       /\ f.st = "first_ret"
       /\ CommitCycle(c, CycleSecondCheck(f, t1, trk, alerts, alert_history, sentFor), CurName(f))
       /\ UNCHANGED <<clock, ticks, config, channels, statuses, traffic_log, health_metrics,
                      mikrotikApiErrors, activeGponCount, started, proc>>
       /\ UNCHANGED <<callVars, extVars>>

\* checkAlert after `await this.sendSecondAlert`: lines 117-120
CycleSecondReturn(c) ==
    LET f == cyc[c]
        t1 == [TrackOf(f, tracking) EXCEPT !.second = TRUE]
    IN /\ proc = "up"
       /\ f.st = "second_ret"
       /\ CommitCycle(c, [f |-> AfterCheck(f), tracking |-> Put(tracking, CurName(f), t1),
                          alerts |-> alerts, alert_history |-> alert_history, sentFor |-> sentFor,
                          detach |-> ~f.aliased], CurName(f))
       /\ UNCHANGED <<clock, ticks, config, channels, statuses, traffic_log, health_metrics,
                      mikrotikApiErrors, activeGponCount, started, proc>>
       /\ UNCHANGED <<callVars, extVars>>

\* checkAlert after `await this.sendRecoveryNotification`: lines 125-127
CycleRecoveryReturn(c) ==
    LET f == cyc[c]
    IN /\ proc = "up"
       /\ f.st = "recovery_ret"
       /\ CommitCycle(c, [f |-> AfterCheck(f), tracking |-> Delete(tracking, CurName(f)),
                          alerts |-> resolveAlert(alerts, CurName(f), clock, TRUE),
                          alert_history |-> alert_history, sentFor |-> sentFor,
                          detach |-> TRUE], CurName(f))
       /\ UNCHANGED <<clock, ticks, config, channels, statuses, traffic_log, health_metrics,
                      mikrotikApiErrors, activeGponCount, started, proc>>
       /\ UNCHANGED <<callVars, extVars>>

\* POST /statuses/bulk: the status of a queue is inserted or updated
SetStatus(name, status) ==
    /\ statuses[name] # status
    /\ statuses' = [statuses EXCEPT ![name] = status]
    /\ UNCHANGED <<clock, ticks, config, channels, tracking, alerts, alert_history, sentFor,
                   traffic_log, health_metrics, mikrotikApiErrors, activeGponCount, cyc,
                   started, proc>>
    /\ UNCHANGED <<callVars, extVars>>

\* the configurations of the poll cycle runs: one enabled channel, recovery
\* notifications on or off
MonitorConfigs ==
    { cfg \in Configs : cfg.emailConfigured /\ ~cfg.enableEmail /\ cfg.telegramEnabled /\ cfg.enableTelegram }

MonitorInit == Init /\ config \in MonitorConfigs

MonitorNext ==
    \/ \E c \in Cycles, d \in {0} \cup Steps : StartCycle(c, d)
    \/ \E c \in Cycles : FetchFail(c)
    \/ \E c \in Cycles, rows \in RouterLists : FetchReturn(c, rows)
    \/ \E c \in Cycles : LoopStep(c)
    \/ \E c \in Cycles, k \in 1..2, result \in {"ok"} \cup Errors : CycleSendSettle(c, k, result)
    \/ \E c \in Cycles : CycleStageSent(c)
    \/ \E c \in Cycles : CycleFirstReturn(c)
    \/ \E c \in Cycles : CycleSecondReturn(c)
    \/ \E c \in Cycles : CycleRecoveryReturn(c)
    \/ \E u \in StatusUpdates : SetStatus(u[1], u[2])

SpecMonitor == MonitorInit /\ [][MonitorNext]_vars

\* the poll cycles after a start on a store that holds one open alerts row of
\* GPON-A, inserted by the process that ran before: restoreState has put GPON-A into
\* the tracking map with alerted = false; recovery notifications are off, as in
\* config/default.js
OpenRowAtBoot ==
    <<[name |-> "GPON-A", start_time |-> 1, end_time |-> Null,
       notified_first |-> 0, notified_second |-> 0]>>

DefaultConfigs == {cfg \in MonitorConfigs : ~cfg.sendRecoveryNotifications}

OverlapInit ==
    /\ BootFrom(OpenRowAtBoot)
    /\ config \in DefaultConfigs
    /\ Idle

SpecOverlap == OverlapInit /\ [][MonitorNext]_vars

(* ======================= routes/traffic.js ======================= *)
\* "max 200" of the downsampling comment
maxPoints == 200

\* Math.ceil(a / b) for a >= 0, b > 0
Ceil(a, b) == (a + b - 1) \div b

\* Math.round(x / 1000) for x >= 0
RoundKb(x) == (x + 500) \div 1000

\* the rows the SELECT returns for n stored samples, ORDER BY timestamp ASC; with
\* dup = 2 two consecutive samples carry the same second
StoredRows(n, dup) ==
    [i \in 1..n |-> [time |-> (1 + (i - 1) \div dup) * 1000, rx |-> 700 * i, tx |-> 300]]

\* the callback of rows.filter: (_, i) => i % step === 0 || i === rows.length - 1
Keep(i, step, n) == i % step = 0 \/ i = n - 1

\* rows.filter(...) over the 1-based positions lo..hi, in the order of the rows
RECURSIVE FilterRange(_, _, _, _)
FilterRange(rs, step, lo, hi) ==
    IF lo > hi THEN <<>>
    ELSE IF lo = hi THEN (IF Keep(lo - 1, step, Len(rs)) THEN <<rs[lo]>> ELSE <<>>)
    ELSE FilterRange(rs, step, lo, (lo + hi) \div 2)
         \o FilterRange(rs, step, (lo + hi) \div 2 + 1, hi)

\* const step = Math.ceil(rows.length / 200); const data = rows.filter(...)
Downsample(rs) ==
    IF Len(rs) = 0 THEN <<>> ELSE FilterRange(rs, Ceil(Len(rs), maxPoints), 1, Len(rs))

\* data.map(p => ({time, rx, tx, total}))
ToPoint(p) ==
    [time |-> p.time, rx |-> RoundKb(p.rx), tx |-> RoundKb(p.tx), total |-> RoundKb(p.rx + p.tx)]

\* GET /api/traffic/:name (and GET /api/all-queues/traffic/:name, same code)
GetTraffic(name) ==
    /\ trafficResponse = NoResponse
    /\ LET data == Downsample(trafficRows)
       IN trafficResponse' = [name |-> name, data |-> [k \in 1..Len(data) |-> ToPoint(data[k])]]
    /\ UNCHANGED <<coreVars, callVars, monitorVars, trafficRows, renderVars, otpVars, routerVars>>

TrafficInit ==
    /\ BootFrom(<<>>)
    /\ config \in DefaultConfigs
    /\ \E n \in 0..MaxRows, dup \in 1..2 : trafficRows = StoredRows(n, dup)
    /\ trafficResponse = NoResponse
    /\ RenderIdle
    /\ OtpIdle
    /\ RouterIdle

TrafficNext == \E name \in Names : GetTraffic(name)

SpecTraffic == TrafficInit /\ [][TrafficNext]_vars

(* ============ NotificationService.getTelegramMessage ============ *)
\* characters of the names and addresses tried: a letter and the five characters
\* escapeHtml replaces
NameChars == {"G", "&", "<", ">", "\"", "'"}

RECURSIVE StringsUpTo(_)
StringsUpTo(n) ==
    IF n = 0 THEN {""}
    ELSE StringsUpTo(n - 1) \cup {str \o ch : str \in StringsUpTo(n - 1), ch \in NameChars}

\* str.replace(/ch/g, by) for a one-character pattern, from position i on
RECURSIVE ReplaceAll(_, _, _, _)
ReplaceAll(str, ch, by, i) ==
    IF i > Len(str) THEN ""
    ELSE (IF CharAt(str, i) = ch THEN by ELSE CharAt(str, i)) \o ReplaceAll(str, ch, by, i + 1)

\* the replacements in another order: the ampersand last
escapeHtml_ampersandLast(unsafe) ==
    ReplaceAll(ReplaceAll(ReplaceAll(ReplaceAll(ReplaceAll(unsafe,
        "<", "&lt;", 1), ">", "&gt;", 1), "\"", "&quot;", 1), "'", "&#039;", 1), "&", "&amp;", 1)

\* lines 194-201
escapeHtml(unsafe) ==
    ReplaceAll(ReplaceAll(ReplaceAll(ReplaceAll(ReplaceAll(unsafe,
        "&", "&amp;", 1), "<", "&lt;", 1), ">", "&gt;", 1), "\"", "&quot;", 1), "'", "&#039;", 1)

\* lines 177-213; the emoji are written as their names, the traffic, the threshold
\* and the time as a sample of what toFixed(2) and toLocaleString() give
getTelegramMessage(alert) ==
    LET emoji == IF alert.type = "second" THEN ":rotating_light:"
                 ELSE IF alert.type = "recovery" THEN ":white_check_mark:" ELSE ":warning:"
        title == IF alert.type = "second" THEN "CRITICAL - STILL DOWN"
                 ELSE IF alert.type = "recovery" THEN "RECOVERED" ELSE "ALERT"
        extraInfo == IF alert.type = "second" THEN "\n\n:warning: Queue has been down for over 1 hour!"
                     ELSE IF alert.type = "recovery" THEN "\n\n:white_check_mark: Traffic restored to normal levels."
                     ELSE ""
    IN emoji \o " <b>" \o title \o ": " \o escapeHtml(alert.name) \o "</b>\n\n"
       \o ":round_pushpin: IP: " \o escapeHtml(alert.ip) \o "\n"
       \o ":bar_chart: Current Traffic: 0.00 KB/s\n"
       \o ":chart_with_downwards_trend: Threshold: 0.01 KB/s\n"
       \o ":clock1: Time: 1/1/2026, 12:00:00 AM"
       \o extraInfo

\* sendTelegram: the text is rendered and posted
SendTelegram ==
    /\ tgText = "none"
    /\ tgText' = getTelegramMessage(tgAlert)
    /\ UNCHANGED <<coreVars, callVars, monitorVars, trafficVars, tgAlert, otpVars, routerVars>>

RenderInit ==
    /\ BootFrom(<<>>)
    /\ config \in DefaultConfigs
    /\ TrafficIdle
    /\ \E name \in StringsUpTo(MaxNameLen), ip \in StringsUpTo(1), type \in {"first", "second", "recovery"} :
          tgAlert = [name |-> name, ip |-> ip, type |-> type]
    /\ tgText = "none"
    /\ OtpIdle
    /\ RouterIdle

RenderNext == SendTelegram

SpecRender == RenderInit /\ [][RenderNext]_vars

(* ======================= TwoFactorService ======================= *)
\* bcrypt.hash(otp, 10) and bcrypt.compare(code, hash): the hash matches the code it
\* was made from and no other; a hash is never Null and never a code
Hash(otp) == 1000000 + otp

Compare(code, hash) == hash = Hash(code)

\* Math.floor(Date.now() / 1000)
NowSec == clock \div 1000

\* isLocked: whether the account is locked at nowSec, and the row after the call
\* (an expired lock is cleared together with the attempts)
isLocked(p, nowSec) ==
    IF p.twofa_locked_until = Null THEN [locked |-> FALSE, profile |-> p]
    ELSE IF p.twofa_locked_until > nowSec THEN [locked |-> TRUE, profile |-> p]
    ELSE [locked |-> FALSE, profile |-> [p EXCEPT !.twofa_locked_until = Null, !.twofa_attempts = 0]]

clearOTP(p) ==
    [p EXCEPT !.twofa_secret = Null, !.twofa_secret_expires = Null, !.twofa_attempts = 0]

\* a call starts in request slot c
OtpStart(c) ==
    /\ otpCall[c].st = "idle"
    /\ otpStarted < MaxOtpCalls
    /\ otpStarted' = otpStarted + 1
    /\ otpOverlap' = (otpOverlap \/ \E g \in OtpSlots : g # c /\ otpCall[g].st # "idle")

\* sendOTP up to `await bcrypt.hash`: lines 343-361
SendOtpBegin(c) ==
    LET lock == isLocked(profile, NowSec)
    IN /\ OtpStart(c)
       /\ otpIssued < MaxOtps
       /\ profile' = lock.profile
       /\ otpFails' = IF lock.profile # profile THEN 0 ELSE otpFails
       /\ IF lock.locked
          THEN /\ otpRet' = [otpRet EXCEPT ![c] = [NoOtpRet EXCEPT !.op = "send", !.error = "locked"]]
               /\ UNCHANGED <<otpCall, otpIssued>>
          ELSE /\ otpCall' = [otpCall EXCEPT ![c] =
                                [NoOtpCall EXCEPT !.st = "hash", !.otp = otpIssued + 1,
                                                  !.expiresAt = NowSec + OTP_VALIDITY_MS \div 1000]]
               /\ otpIssued' = otpIssued + 1
               /\ UNCHANGED otpRet
       /\ UNCHANGED <<coreVars, callVars, monitorVars, trafficVars, renderVars, routerVars, otpAccepted>>

\* sendOTP after the hash: the UPDATE of lines 364-370, then `await sendOTPEmail`
SendOtpStore(c) ==
    /\ otpCall[c].st = "hash"
    /\ profile' = [profile EXCEPT !.twofa_secret = Hash(otpCall[c].otp),
                                   !.twofa_secret_expires = otpCall[c].expiresAt,
                                   !.twofa_attempts = 0]
    /\ otpCall' = [otpCall EXCEPT ![c].st = "mail"]
    /\ UNCHANGED <<coreVars, callVars, monitorVars, trafficVars, renderVars, routerVars,
                   otpRet, otpIssued, otpStarted, otpFails, otpAccepted, otpOverlap>>

\* the email is sent, or sendOTPEmail throws and the catch returns success: false
SendOtpMailed(c, ok) ==
    /\ otpCall[c].st = "mail"
    /\ otpCall' = [otpCall EXCEPT ![c] = NoOtpCall]
    /\ otpRet' = [otpRet EXCEPT ![c] = [NoOtpRet EXCEPT !.op = "send", !.valid = ok,
                                                         !.error = IF ok THEN "none" ELSE "failed"]]
    /\ UNCHANGED <<coreVars, callVars, monitorVars, trafficVars, renderVars, routerVars,
                   profile, otpIssued, otpStarted, otpFails, otpAccepted, otpOverlap>>

\* verifyOTP up to `await bcrypt.compare`: lines 392-429
VerifyOtpBegin(c, code) ==
    LET lock == isLocked(profile, NowSec)
        user == lock.profile
        ret(err) == [otpRet EXCEPT ![c] = [NoOtpRet EXCEPT !.op = "verify", !.error = err]]
    IN /\ OtpStart(c)
       /\ otpFails' = IF lock.profile # profile THEN 0 ELSE otpFails
       /\ IF lock.locked
          THEN /\ otpRet' = ret("locked")
               /\ profile' = user
               /\ UNCHANGED otpCall
          ELSE IF user.twofa_secret = Null
          THEN /\ otpRet' = ret("no code")
               /\ profile' = user
               /\ UNCHANGED otpCall
          ELSE IF user.twofa_secret_expires < NowSec
          THEN /\ otpRet' = ret("expired")
               /\ profile' = clearOTP(user)
               /\ UNCHANGED otpCall
          ELSE /\ otpCall' = [otpCall EXCEPT ![c] =
                                [NoOtpCall EXCEPT !.st = "compare", !.code = code,
                                                  !.secret = user.twofa_secret,
                                                  !.attempts = user.twofa_attempts,
                                                  !.now = NowSec]]
               /\ profile' = user
               /\ UNCHANGED otpRet
       /\ UNCHANGED <<coreVars, callVars, monitorVars, trafficVars, renderVars, routerVars,
                      otpIssued, otpAccepted>>

\* verifyOTP after the compare: lines 431-470, on the row it read before the await
VerifyOtpEnd(c) ==
    LET f == otpCall[c]
        newAttempts == f.attempts + 1
        ret(valid, left, err) ==
            [otpRet EXCEPT ![c] = [op |-> "verify", valid |-> valid, attemptsRemaining |-> left,
                                   error |-> err]]
    IN /\ f.st = "compare"
       /\ otpCall' = [otpCall EXCEPT ![c] = NoOtpCall]
       /\ IF Compare(f.code, f.secret)
          THEN /\ profile' = clearOTP(profile)
               /\ otpRet' = ret(TRUE, -1, "none")
               /\ otpAccepted' = Append(otpAccepted, f.code)
               /\ otpFails' = 0
          ELSE /\ otpFails' = otpFails + 1
               /\ otpAccepted' = otpAccepted
               /\ IF newAttempts >= MAX_ATTEMPTS
                  THEN /\ profile' = [profile EXCEPT !.twofa_attempts = newAttempts,
                                                     !.twofa_locked_until = f.now + LOCKOUT_DURATION_MS \div 1000]
                       /\ otpRet' = ret(FALSE, 0, "too many")
                  ELSE /\ profile' = [profile EXCEPT !.twofa_attempts = newAttempts]
                       /\ otpRet' = ret(FALSE, MAX_ATTEMPTS - newAttempts, "invalid")
       /\ UNCHANGED <<coreVars, callVars, monitorVars, trafficVars, renderVars, routerVars,
                      otpIssued, otpStarted, otpOverlap>>

OtpInit ==
    /\ BootFrom(<<>>)
    /\ config \in DefaultConfigs
    /\ Idle

\* the requests of routes/auth.js: /login and /resend-otp call sendOTP, /verify-2fa
\* calls verifyOTP with the code of the request body; 0 is a code never issued
OtpNext ==
    \/ \E c \in OtpSlots : SendOtpBegin(c)
    \/ \E c \in OtpSlots : SendOtpStore(c)
    \/ \E c \in OtpSlots, ok \in BOOLEAN : SendOtpMailed(c, ok)
    \/ \E c \in OtpSlots, code \in 0..MaxOtps : VerifyOtpBegin(c, code)
    \/ \E c \in OtpSlots : VerifyOtpEnd(c)
    \/ \E d \in Steps : Tick(d)

SpecOtp == OtpInit /\ [][OtpNext]_vars

(* ======================= mikrotik.js ======================= *)
MAX_RECONNECT == maxReconnectAttempts

maxDelayMs == 30000

\* the history variable tries stops counting one above MAX_RECONNECT
MaxTries == MAX_RECONNECT + 1

\* Math.min(1000 * 2 ** reconnectAttempts, 30000)
BackoffDelay(n) == Min(1000 * 2 ^ n, maxDelayMs)

\* connect() throws at the end of its loop, or api.write() throws: write()'s catch
\* block clears connected and the call ends with the error
WriteThrows(c, err) ==
    /\ connected' = FALSE
    /\ writeCall' = [writeCall EXCEPT ![c] = "idle"]
    /\ writeRet' = [writeRet EXCEPT ![c] = err]
    /\ UNCHANGED tries

\* connect() at the test of its while loop, inside write()'s try block
ConnectLoop(c, made) ==
    IF reconnectAttempts < MAX_RECONNECT
    THEN IF connected
         THEN /\ writeCall' = [writeCall EXCEPT ![c] = "api.write"]
              /\ tries' = [tries EXCEPT ![c] = made]
              /\ UNCHANGED <<connected, writeRet>>
         ELSE /\ writeCall' = [writeCall EXCEPT ![c] = "api.connect"]
              /\ tries' = [tries EXCEPT ![c] = Min(made + 1, MaxTries)]
              /\ UNCHANGED <<connected, writeRet>>
    ELSE /\ connected' = FALSE
         /\ writeCall' = [writeCall EXCEPT ![c] = "idle"]
         /\ writeRet' = [writeRet EXCEPT ![c] = "max retries"]
         /\ tries' = [tries EXCEPT ![c] = made]

\* a caller (a poll cycle or a route) calls write()
WriteBegin(c) ==
    /\ writeCall[c] = "idle"
    /\ ConnectLoop(c, 0)
    /\ UNCHANGED <<coreVars, callVars, monitorVars, trafficVars, renderVars, otpVars,
                   reachable, reconnectAttempts, wait>>

\* `await api.connect()` settles: resolves when the router is reachable, rejects otherwise
ConnectSettles(c) ==
    /\ writeCall[c] = "api.connect"
    /\ IF reachable
       THEN /\ connected' = TRUE
            /\ reconnectAttempts' = 0
            /\ writeCall' = [writeCall EXCEPT ![c] = "api.write"]
            /\ UNCHANGED wait
       ELSE /\ connected' = FALSE
            /\ reconnectAttempts' = reconnectAttempts + 1
            /\ wait' = [wait EXCEPT ![c] = BackoffDelay(reconnectAttempts + 1)]
            /\ writeCall' = [writeCall EXCEPT ![c] = "backoff"]
    /\ UNCHANGED <<coreVars, callVars, monitorVars, trafficVars, renderVars, otpVars,
                   reachable, writeRet, tries>>

\* the backoff timer of the catch block fires and the loop tests its condition again
BackoffDone(c) ==
    /\ writeCall[c] = "backoff"
    /\ ConnectLoop(c, tries[c])
    /\ wait' = [wait EXCEPT ![c] = 0]
    /\ UNCHANGED <<coreVars, callVars, monitorVars, trafficVars, renderVars, otpVars,
                   reachable, reconnectAttempts>>

\* `await api.write(...args)` settles
WriteSettles(c) ==
    /\ writeCall[c] = "api.write"
    /\ IF reachable
       THEN /\ writeCall' = [writeCall EXCEPT ![c] = "idle"]
            /\ writeRet' = [writeRet EXCEPT ![c] = "ok"]
            /\ UNCHANGED <<connected, tries>>
       ELSE WriteThrows(c, "failed")
    /\ UNCHANGED <<coreVars, callVars, monitorVars, trafficVars, renderVars, otpVars,
                   reachable, reconnectAttempts, wait>>

RouterDown ==
    /\ reachable
    /\ reachable' = FALSE
    /\ UNCHANGED <<coreVars, callVars, monitorVars, trafficVars, renderVars, otpVars,
                   connected, reconnectAttempts, writeCall, writeRet, tries, wait>>

RouterUp ==
    /\ ~reachable
    /\ reachable' = TRUE
    /\ UNCHANGED <<coreVars, callVars, monitorVars, trafficVars, renderVars, otpVars,
                   connected, reconnectAttempts, writeCall, writeRet, tries, wait>>

RouterInit ==
    /\ BootFrom(<<>>)
    /\ config \in DefaultConfigs
    /\ Idle

RouterNext ==
    \/ \E c \in Callers : WriteBegin(c)
    \/ \E c \in Callers : ConnectSettles(c)
    \/ \E c \in Callers : BackoffDone(c)
    \/ \E c \in Callers : WriteSettles(c)
    \/ RouterDown
    \/ RouterUp

\* every await settles (api.connect and api.write have the configured timeout, the
\* backoff is a timer), and setInterval keeps calling checkTraffic, which calls write()
RouterFairness ==
    \A c \in Callers :
        /\ WF_vars(WriteBegin(c))
        /\ WF_vars(ConnectSettles(c))
        /\ WF_vars(BackoffDone(c))
        /\ WF_vars(WriteSettles(c))

SpecRouter == RouterInit /\ [][RouterNext]_vars /\ RouterFairness

(* ======================= claims ======================= *)
Stages(seq) == {seq[i] : i \in 1..Len(seq)}

SomeChannelEnabled == \E i \in 1..Len(channels) : channels[i].enabled

Completed == pc = "idle" /\ outcome = "fulfilled"

\* C1: every entity has at most one alerts row with end_time NULL, whatever the
\* sequence of cycles, store write failures and restarts.
C1_AtMostOneOpenRecord ==
    \A n \in Names : Cardinality(OpenRows(alerts, n)) <= 1

\* C2: no entry of the tracking map has second = true while alerted = false.
C2_SecondImpliesAlerted ==
    \A n \in DOMAIN tracking : tracking[n].second => tracking[n].alerted

\* C3: one checkAlert call dispatches at most one stage for its entity.
C3_OneStagePerCycle ==
    SomeChannelEnabled => Len(dispatched) <= 1

\* C4: for one open AlertRecord the first-stage and the second-stage notification
\* are each dispatched at most once, restarts included.
C4_EachStageOncePerEpisode ==
    \A i \in 1..Len(sentFor) : sentFor[i].first <= 1 /\ sentFor[i].second <= 1

\* C5: a checkAlert call that repeats the call before it (same entity, sample,
\* threshold and clock value) dispatches nothing and leaves the tracking map and
\* the alerts table as the first call left them.
C5_RepeatedCallChangesNothing ==
    [][(pc = "idle" /\ repeat')
        => (/\ pc' = "idle"
            /\ dispatched' = <<>>
            /\ tracking' = tracking
            /\ alerts' = alerts)]_vars

C5_Witness ==
    /\ repeat /\ Completed
    /\ cur.totalKb < cur.threshold
    /\ cur.name \in DOMAIN tracking
    /\ tracking[cur.name].alerted
    /\ ~tracking[cur.name].second
    /\ cur.now - tracking[cur.name].first >= alertDelayMs
    /\ SomeChannelEnabled

\* C6: recovery round trip.  The step that ends a recovery (sample >= threshold on a
\* tracked entity) removes the tracking entry and, the UPDATE being accepted by the
\* store, gives every open record of the entity the non-null end_time of that moment;
\* a call with a sample < threshold on an untracked entity ends with the entry
\* {first = now, alerted = false, second = false} and, the INSERT being accepted,
\* with one new open record whose start_time is that moment.
C6_RecoveryRoundTrip ==
    [][/\ (pc = "recovery_ret" /\ pc' = "idle" /\ cur' = cur)
          => (/\ cur.name \notin DOMAIN tracking'
              /\ ("resolveAlert" \notin failed'
                    => (/\ OpenRows(alerts', cur.name) = {}
                        /\ Len(alerts') = Len(alerts)
                        /\ \A i \in OpenRows(alerts, cur.name) :
                              /\ alerts'[i].end_time = unixepoch(clock)
                              /\ alerts'[i].end_time # Null)))
       /\ (/\ pc = "idle" /\ cur' # NoCall /\ clock' = clock
           /\ cur'.totalKb < cur'.threshold
           /\ cur'.name \notin DOMAIN tracking)
          => (/\ pc' = "idle"
              /\ cur'.name \in DOMAIN tracking'
              /\ tracking'[cur'.name] = [first |-> clock, alerted |-> FALSE, second |-> FALSE]
              /\ ("createAlertRecord" \notin failed'
                    => (/\ Len(alerts') = Len(alerts) + 1
                        /\ alerts'[Len(alerts')] =
                              [name |-> cur'.name, start_time |-> unixepoch(clock), end_time |-> Null,
                               notified_first |-> 0, notified_second |-> 0]
                        /\ \A i \in 1..Len(alerts) : alerts'[i] = alerts[i])))
      ]_vars

C6_Witness ==
    /\ Completed
    /\ cur.totalKb < cur.threshold
    /\ cur.name \in DOMAIN tracking
    /\ tracking[cur.name] = [first |-> cur.now, alerted |-> FALSE, second |-> FALSE]
    /\ \E i \in 1..Len(alerts), j \in 1..Len(alerts) :
          /\ i < j
          /\ alerts[i].name = cur.name /\ alerts[j].name = cur.name
          /\ alerts[i].end_time # Null
          /\ alerts[i].notified_first = 1
          /\ alerts[j].end_time = Null
          /\ alerts[j].start_time = unixepoch(cur.now)
          /\ alerts[j].start_time > alerts[i].start_time

\* C7: right after a start whose restoreState read the store, the tracking map has an
\* entry for exactly the entities with an open alerts row, and each entry carries the
\* start_time (in ms) and the notified flags of an open row of its entity.
C7_RestoreMirrorsOpenRows ==
    boot = "restored"
    => /\ DOMAIN tracking = {n \in Names : \E i \in 1..Len(alerts) :
                                  alerts[i].name = n /\ alerts[i].end_time = Null}
       /\ \A n \in DOMAIN tracking :
             \E i \in 1..Len(alerts) :
                /\ alerts[i].name = n /\ alerts[i].end_time = Null
                /\ tracking[n].first = alerts[i].start_time * 1000
                /\ tracking[n].alerted = (alerts[i].notified_first = 1)
                /\ tracking[n].second = (alerts[i].notified_second = 1)

C7_Witness ==
    /\ boot = "restored"
    /\ \E n \in DOMAIN tracking : tracking[n].alerted /\ ~tracking[n].second
    /\ \E i \in 1..Len(alerts) : alerts[i].end_time # Null

\* C8: a store write error in createAlertRecord, in the notified-flag update or in
\* resolveAlert never rejects checkAlert, and the call ends with the tracking map
\* it has after a successful write: entry with first = now, flag true, entry deleted.
C8_WriteErrorsAreSwallowed ==
    /\ outcome # "rejected"
    /\ Completed =>
         /\ "createAlertRecord" \in failed
               => (cur.name \in DOMAIN tracking /\ tracking[cur.name].first = cur.now)
         /\ "notified_first" \in failed
               => (cur.name \in DOMAIN tracking /\ tracking[cur.name].alerted)
         /\ "notified_second" \in failed
               => (cur.name \in DOMAIN tracking /\ tracking[cur.name].second)
         /\ "resolveAlert" \in failed
               => cur.name \notin DOMAIN tracking

C8_Witness ==
    /\ Completed
    /\ "notified_first" \in failed
    /\ tracking[cur.name].alerted
    /\ \E i \in OpenRows(alerts, cur.name) : alerts[i].notified_first = 0

\* the enabled channels, in registration order, read off the configuration
ExpectedChannels ==
    (IF config.emailConfigured /\ config.enableEmail THEN <<"email">> ELSE <<>>)
    \o (IF config.telegramEnabled /\ config.enableTelegram THEN <<"telegram">> ELSE <<>>)

SendAlertPending == pc \in {"first_send", "second_send", "recovery_send"}

SendAlertReturned == pc \in {"first_ret", "second_ret", "recovery_ret"} /\ dispatched # <<>>

\* C9: sendAlert makes exactly one send attempt per configured and enabled channel, in
\* channel order and whatever the other sends do, none on a disabled channel; it
\* returns one fulfilled outcome per enabled channel, in channel order, with
\* success = false and the error for a channel that threw and success = true otherwise.
C9_OneOutcomePerEnabledChannel ==
    /\ (SendAlertPending \/ SendAlertReturned)
          => (/\ Len(sends) = Len(ExpectedChannels)
              /\ \A i \in 1..Len(sends) : sends[i].channel = ExpectedChannels[i])
    /\ SendAlertReturned
          => (/\ Len(results) = Len(ExpectedChannels)
              /\ \A i \in 1..Len(results) :
                    /\ results[i].status = "fulfilled"
                    /\ results[i].value.channel = ExpectedChannels[i]
                    /\ results[i].value.success = (sends[i].outcome = "ok")
                    /\ (sends[i].outcome # "ok" => results[i].value.error = sends[i].outcome))

C9_Witness ==
    /\ pc = "first_ret"
    /\ Len(results) = 2
    /\ sends[1].outcome \in Errors
    /\ results[1].value = [channel |-> "email", success |-> FALSE, error |-> sends[1].outcome]
    /\ results[2].value = [channel |-> "telegram", success |-> TRUE]

\* C10: when a stage was due and dispatched, its flag is set in the tracking entry at
\* the end of the call and, the UPDATE being accepted by the store, on every open
\* record of the entity, whatever the channel outcomes (some failed, all failed, none enabled).
C10_StageFlagSetWhateverTheOutcomes ==
    /\ (pc = "first_ret" /\ "notified_first" \notin failed)
          => \A i \in OpenRows(alerts, cur.name) : alerts[i].notified_first = 1
    /\ (pc = "second_ret" /\ "notified_second" \notin failed)
          => \A i \in OpenRows(alerts, cur.name) : alerts[i].notified_second = 1
    /\ (Completed /\ "first" \in Stages(dispatched))
          => (cur.name \in DOMAIN tracking /\ tracking[cur.name].alerted)
    /\ (Completed /\ "second" \in Stages(dispatched))
          => (cur.name \in DOMAIN tracking /\ tracking[cur.name].second)

C10_Witness ==
    /\ pc = "first_ret"
    /\ "notified_first" \notin failed
    /\ Len(sends) = 2
    /\ \A i \in 1..Len(sends) : sends[i].outcome \in Errors
    /\ \E i \in OpenRows(alerts, cur.name) : alerts[i].notified_first = 1

\* C12: a sample >= threshold on a tracked entity.  With recovery notifications
\* disabled sendAlert is not called and no channel send is made; with them enabled
\* exactly one recovery dispatch is made.  Either way the dispatch is over before the
\* record is closed, the close (the UPDATE being accepted) leaves no open record of
\* the entity, and the tracking entry is deleted.
C12_RecoveryDispatchFollowsConfig ==
    [][/\ pc' = "recovery_ret"
          => (/\ dispatched' = IF config.sendRecoveryNotifications THEN <<"recovery">> ELSE <<>>
              /\ (~config.sendRecoveryNotifications => sends' = <<>> /\ results' = <<>>)
              /\ AllSettled(sends'))
       /\ (\E i \in 1..Len(alerts) : alerts[i].end_time = Null /\ alerts'[i].end_time # Null)
          => (/\ pc = "recovery_ret"
              /\ dispatched' = dispatched)
       /\ (pc = "recovery_ret" /\ pc' = "idle" /\ cur' = cur)
          => (/\ cur.totalKb >= cur.threshold
              /\ cur.name \notin DOMAIN tracking'
              /\ ("resolveAlert" \notin failed' => OpenRows(alerts', cur.name) = {}))
      ]_vars

C12_Witness ==
    /\ Completed
    /\ ~config.sendRecoveryNotifications
    /\ SomeChannelEnabled
    /\ cur.totalKb >= cur.threshold
    /\ dispatched = <<>>
    /\ cur.name \notin DOMAIN tracking
    /\ OpenRows(alerts, cur.name) = {}
    /\ \E i \in 1..Len(alerts) :
          /\ alerts[i].name = cur.name
          /\ alerts[i].notified_first = 1
          /\ alerts[i].end_time = unixepoch(cur.now)

\* C18: every alert_history entry stands for a notification that was dispatched: an
\* entry of a stage exists only if some channel is enabled, and a recovery entry only
\* if recovery notifications are enabled as well.
C18_HistoryOnlyForDispatches ==
    \A i \in 1..Len(alert_history) :
        /\ SomeChannelEnabled
        /\ alert_history[i].alert_type = "recovery" => config.sendRecoveryNotifications

\* C19: stages never skip.  A second-stage notification is dispatched for an alerts
\* row only if a first-stage notification was dispatched for that row before, and
\* checkAlert dispatches the second stage, and sets second = true, only on an entry
\* whose alerted is true.
C19_SecondOnlyAfterFirst ==
    /\ \A i \in 1..Len(sentFor) : sentFor[i].second > 0 => sentFor[i].first > 0
    /\ pc \in {"second_send", "second_ret"} => track.alerted
    /\ \A n \in DOMAIN tracking :
          (pc = "idle" /\ cur.name = n /\ "second" \in Stages(dispatched) /\ tracking[n].second)
             => tracking[n].alerted

C19_Witness ==
    /\ pc = "second_ret"
    /\ dispatched = <<"second">>
    /\ track.alerted
    /\ boot = "running"
    /\ \E i \in OpenRows(alerts, cur.name) :
          /\ sentFor[i].first = 1 /\ sentFor[i].second = 1
          /\ alerts[i].notified_first = 1 /\ alerts[i].notified_second = 1

\* C20: recovery is debounced.  checkAlert treats a tracked entity as recovered only
\* when its traffic has been at or above threshold for recoveryDelayMs, hence no
\* earlier than recoveryDelayMs after the first below-threshold observation.
C20_RecoveryIsDebounced ==
    pc \in {"recovery_send", "recovery_ret"} => cur.now - track.first >= recoveryDelayMs

(* ---------------- claims about the poll cycle ---------------- *)
\* cycle c takes the step (a step of the other cycle can only detach c's track object)
Acts(c) ==
    \/ cyc'[c].st # cyc[c].st
    \/ cyc'[c].i # cyc[c].i
    \/ cyc'[c].sends # cyc[c].sends

\* the statuses cycle c works with in the step it takes
Snapshot(c) == IF cyc[c].st = "fetch" THEN statuses ELSE cyc[c].stat

RowsOfName(tbl, n) == {i \in 1..Len(tbl) : tbl[i].name = n}

\* a rate of the form <digits>/<digits>
WellFormedRate(rate) ==
    /\ rate # NoRate
    /\ Len(Split(rate, "/")) = 2
    /\ \A k \in 1..2 :
          LET piece == Split(rate, "/")[k]
          IN Len(piece) > 0 /\ DigitRun(piece, 1) = Len(piece)

\* C11: a step of a cycle for which entity n is not Active (status Inactive, or no
\* statuses row) leaves n's tracking entry, n's alerts rows and n's history as they
\* are and dispatches nothing for n.
C11_InactiveEntityUntouched ==
    [][\A c \in Cycles, n \in GponNames :
          (Acts(c) /\ cyc[c].st # "idle" /\ QueueConfig(Snapshot(c), n).status # "Active")
          => (/\ (n \in DOMAIN tracking') = (n \in DOMAIN tracking)
              /\ (n \in DOMAIN tracking => tracking'[n] = tracking[n])
              /\ RowsOfName(alerts', n) = RowsOfName(alerts, n)
              /\ \A i \in RowsOfName(alerts, n) : alerts'[i] = alerts[i] /\ sentFor'[i] = sentFor[i]
              /\ RowsOfName(alert_history', n) = RowsOfName(alert_history, n)
              /\ ~(InCheck(cyc'[c]) /\ CurName(cyc'[c]) = n))
      ]_vars

C11_Witness ==
    \E c \in Cycles :
        LET f == cyc[c]
        IN /\ f.st = "loop" /\ f.i = 4
           /\ f.rows[2].name = "GPON-A"
           /\ f.stat["GPON-A"] = "Inactive"
           /\ Less(TotalKb(RateRx(f.rows[2].rate), RateTx(f.rows[2].rate)), defaultThreshold)
           /\ f.evald = {3}
           /\ "GPON-A" \in DOMAIN tracking
           /\ ~tracking["GPON-A"].alerted
           /\ f.now - tracking["GPON-A"].first >= alertDelayMs
           /\ OpenRows(alerts, "GPON-A") # {}

\* C13: a row whose rate is missing or malformed is evaluated with rx = 0, tx = 0 and
\* totalKb = 0, and checkAlert never treats it as recovered.
C13_MalformedRateIsZero ==
    \A c \in Cycles :
        (InCheck(cyc[c]) /\ ~WellFormedRate(cyc[c].rows[cyc[c].i].rate))
        => (/\ RateRx(cyc[c].rows[cyc[c].i].rate) = 0
            /\ RateTx(cyc[c].rows[cyc[c].i].rate) = 0
            /\ CurKb(cyc[c]) = 0
            /\ cyc[c].st \notin {"recovery_send", "recovery_ret"})

\* C14: when the router fetch raises, the cycle ends with no sample, no change of
\* tracking, alerts or history and no dispatch; the error metric is counted and
\* recorded, and the process stays up for the next cycles.
C14_FetchFailureAbortsCleanly ==
    [][\A c \in Cycles :
          (cyc[c].st = "fetch" /\ cyc'[c].ended = "router fetch")
          => (/\ traffic_log' = traffic_log
              /\ tracking' = tracking
              /\ alerts' = alerts
              /\ alert_history' = alert_history
              /\ sentFor' = sentFor
              /\ mikrotikApiErrors' = mikrotikApiErrors + 1
              /\ health_metrics' = Append(health_metrics, [metric_name |-> "monitor_errors"])
              /\ proc' = "up")
      ]_vars

\* C15: with overlapping cycles, an alerts row is inserted for an entity only in a
\* step that finds no tracking entry and no open row of the entity and that puts
\* the entry into the Map in the same step; no entity ever has two open rows.
C15_OverlapNeverDuplicatesOpenRecord ==
    [][\A n \in GponNames :
          /\ Cardinality(OpenRows(alerts', n)) <= 1
          /\ (Len(alerts') > Len(alerts) /\ alerts'[Len(alerts')].name = n)
             => (/\ Len(alerts') = Len(alerts) + 1
                 /\ n \notin DOMAIN tracking
                 /\ OpenRows(alerts, n) = {}
                 /\ n \in DOMAIN tracking'
                 /\ tracking'[n] = [first |-> clock, alerted |-> FALSE, second |-> FALSE])
      ]_vars

C15_Witness ==
    /\ \A c \in Cycles :
          /\ cyc[c].st = "loop"
          /\ 2 \in cyc[c].evald
          /\ cyc[c].rows[2].name = "GPON-A"
          /\ Less(TotalKb(RateRx(cyc[c].rows[2].rate), RateTx(cyc[c].rows[2].rate)), defaultThreshold)
    /\ Len(alerts) = 1
    /\ OpenRows(alerts, "GPON-A") = {1}
    /\ "GPON-A" \in DOMAIN tracking

\* C16: a traffic_log write that throws does not end the cycle: the row is still
\* evaluated by checkAlert, and every row the loop has passed that is monitored
\* and Active was sampled (or its write failed) and evaluated.
C16_SampleWriteFailureIsIsolated ==
    \A c \in Cycles :
        /\ cyc[c].ended # "sample write"
        /\ cyc[c].logFailed \subseteq cyc[c].evald
        /\ cyc[c].st \notin {"idle", "fetch"}
           => \A j \in 1..Len(cyc[c].rows) :
                 ((j < cyc[c].i \/ (j = cyc[c].i /\ InCheck(cyc[c]))) /\ Eligible(cyc[c].rows[j], cyc[c].stat))
                 => (j \in cyc[c].evald /\ j \in cyc[c].sampled \cup cyc[c].logFailed)

C16_Witness ==
    \E c \in Cycles :
        /\ cyc[c].st = "loop" /\ cyc[c].i = 4
        /\ cyc[c].logFailed = {2}
        /\ cyc[c].evald = {2, 3}
        /\ cyc[c].sampled = {3}
        /\ "GPON-A" \in DOMAIN tracking
        /\ tracking["GPON-A"].first = cyc[c].now
        /\ \E k \in 1..Len(traffic_log) :
              traffic_log[k].name = "GPON-B" /\ traffic_log[k].timestamp = cyc[c].now \div 1000

\* C17: when a cycle whose sample writes were all accepted has gone through the
\* router's list, it has appended a sample for exactly the rows whose name has the
\* monitored prefix.
C17_OneSamplePerMonitoredEntity ==
    \A c \in Cycles :
        (/\ cyc[c].st = "loop"
         /\ NextEligible(cyc[c].rows, cyc[c].stat, cyc[c].i) > Len(cyc[c].rows)
         /\ cyc[c].logFailed = {})
        => \A j \in 1..Len(cyc[c].rows) : Monitored(cyc[c].rows[j]) <=> j \in cyc[c].sampled

\* C25: when poll cycles overlap, no stage is dispatched twice for one open alerts
\* row: a cycle that starts while another one is suspended in the dispatch of a stage
\* for an entity does not dispatch that stage for that entity again.
C25_OverlapNeverRedispatchesStage ==
    /\ \A i \in 1..Len(sentFor) : sentFor[i].first <= 1 /\ sentFor[i].second <= 1
    /\ \A c \in Cycles, g \in Cycles :
          (c # g /\ cyc[c].st \in {"first_send", "second_send"} /\ InCheck(cyc[g])
                 /\ CurName(cyc[c]) = CurName(cyc[g]))
          => cyc[g].st \notin {cyc[c].st}

\* C26: a first-stage dispatch happens only when the first-alert delay has passed
\* since the call's first-crossing time and since the first below-threshold
\* observation of the episode (the call that inserted the open row); a second-stage
\* dispatch only when the second-alert delay has passed since both.
C26_StageNotBeforeDelay ==
    /\ pc = "first_send"
       => /\ cur.now - track.first >= alertDelayMs
          /\ \A i \in OpenRows(alerts, cur.name) : cur.now - sentFor[i].seen >= alertDelayMs
    /\ pc = "second_send"
       => /\ cur.now - track.first >= secondAlertMs
          /\ \A i \in OpenRows(alerts, cur.name) : cur.now - sentFor[i].seen >= secondAlertMs

NoSendPending == \A k \in 1..Len(sends) : sends[k].outcome # "pending"

\* C27: a step that writes notified_first or notified_second to an alerts row, or that
\* sets alerted or second in the tracking entry of a running process, is a step of a
\* call whose channel sends for that stage have all settled; the store write comes
\* before the flag in memory.
C27_FlagAfterAllSendsSettled ==
    [][/\ (\E i \in 1..Len(alerts) : alerts[i].notified_first = 0 /\ alerts'[i].notified_first = 1)
          => (pc = "first_send" /\ NoSendPending /\ Len(sends) = Len(EnabledChannels(channels)))
       /\ (\E i \in 1..Len(alerts) : alerts[i].notified_second = 0 /\ alerts'[i].notified_second = 1)
          => (pc = "second_send" /\ NoSendPending /\ Len(sends) = Len(EnabledChannels(channels)))
       /\ \A n \in (DOMAIN tracking) \cap (DOMAIN tracking') :
             boot' = "running"
             => /\ (~tracking[n].alerted /\ tracking'[n].alerted)
                   => (pc = "first_ret" /\ NoSendPending)
                /\ (~tracking[n].second /\ tracking'[n].second)
                   => (pc = "second_ret" /\ NoSendPending)
      ]_vars

C27_Witness ==
    /\ pc = "second_ret"
    /\ Len(sends) = 2
    /\ sends[1].outcome \in Errors /\ sends[2].outcome = "ok"
    /\ \E i \in OpenRows(alerts, cur.name) : alerts[i].notified_second = 1
    /\ cur.name \in DOMAIN tracking
    /\ ~tracking[cur.name].second

C29_RecoveryOnlyAfterFirst ==
    (pc = "recovery_send" /\ SomeChannelEnabled)
    => /\ track.alerted
       /\ \A i \in OpenRows(alerts, cur.name) : sentFor[i].first >= 1

\* C21: the traffic history response has at most 200 points, for any number of
\* stored samples, and its points are in ascending time order.
C21_AtMostMaxPoints ==
    trafficResponse # NoResponse
    => /\ Len(trafficResponse.data) <= maxPoints
       /\ \A k \in 1..(Len(trafficResponse.data) - 1) :
             trafficResponse.data[k].time <= trafficResponse.data[k + 1].time

\* the characters that are markup in Telegram's HTML and their entities
Special == {"&", "<", ">", "\"", "'"}

EntityOf(ch) ==
    IF ch = "&" THEN "&amp;" ELSE IF ch = "<" THEN "&lt;" ELSE IF ch = ">" THEN "&gt;"
    ELSE IF ch = "\"" THEN "&quot;" ELSE "&#039;"

\* number of places of str where sub begins
Occurrences(str, sub) ==
    Cardinality({i \in 1..(Len(str) - Len(sub) + 1) : SubSeq(str, i, i + Len(sub) - 1) = sub})

\* C22: in the text posted to Telegram, for every stage, each of the characters
\* & < > " ' of the entity name and of the address appears as its HTML entity and
\* nowhere as itself: the only < and > of the text are those of the <b> element,
\* there is no quote, and every & begins an entity.
C22_TelegramFieldsAreEscaped ==
    tgText # "none"
    => /\ \A ch \in Special :
             Occurrences(tgText, EntityOf(ch))
                = Occurrences(tgAlert.name, ch) + Occurrences(tgAlert.ip, ch)
       /\ Occurrences(tgText, "<") = 2 /\ Occurrences(tgText, "<b>") = 1 /\ Occurrences(tgText, "</b>") = 1
       /\ Occurrences(tgText, ">") = 2
       /\ Occurrences(tgText, "\"") = 0 /\ Occurrences(tgText, "'") = 0
       /\ Occurrences(tgText, "&") = Len(tgAlert.name) - Occurrences(tgAlert.name, "G")
                                       + Len(tgAlert.ip) - Occurrences(tgAlert.ip, "G")

C22_Witness ==
    /\ tgAlert = [name |-> "<&", ip |-> "'", type |-> "recovery"]
    /\ Occurrences(tgText, "RECOVERED: &lt;&amp;</b>") = 1
    /\ Occurrences(tgText, "IP: &#039;") = 1

AccountLocked == profile.twofa_locked_until # Null /\ profile.twofa_locked_until > NowSec

\* C23: with the requests of a user handled one after the other: the verifyOTP call
\* that makes the number of failed attempts 5 locks the account for 30 minutes; a
\* failed attempt before that returns attemptsRemaining = 5 minus the number of
\* failed attempts; while the account is locked no verifyOTP call returns
\* valid = true and sendOTP makes no code.
C23_LockoutAfterFiveFailures ==
    [][~otpOverlap'
       => \A c \in OtpSlots :
            /\ (otpCall[c].st = "compare" /\ otpRet'[c].op = "verify" /\ ~otpRet'[c].valid
                   /\ otpCall'[c].st = "idle")
               => IF otpFails' >= MAX_ATTEMPTS
                  THEN /\ profile'.twofa_locked_until = NowSec + LOCKOUT_DURATION_MS \div 1000
                       /\ otpRet'[c].attemptsRemaining = 0
                  ELSE otpRet'[c].attemptsRemaining = MAX_ATTEMPTS - otpFails'
            /\ AccountLocked
               => /\ otpIssued' = otpIssued
                  /\ (otpRet'[c] # otpRet[c] /\ otpRet'[c].op = "verify") => ~otpRet'[c].valid
      ]_vars

\* C24: no code is accepted twice: once a verifyOTP call with a code has returned
\* valid = true, no other verifyOTP call with that code returns valid = true.
C24_OtpIsSingleUse ==
    \A i \in 1..Len(otpAccepted), j \in 1..Len(otpAccepted) :
        i # j => otpAccepted[i] # otpAccepted[j]

\* C30: a router outage is not permanent for the client: if the router is reachable
\* again and stays reachable, write() calls succeed again (the callers keep calling,
\* so some later call fetches the queue list), also after connect() has failed
\* maxReconnectAttempts times and raised.
C30_OutageIsNotPermanent ==
    (<>[]reachable) => []<>(\E c \in Callers : writeRet[c] = "ok")

\* C34: asking for a new code between failed attempts gives no further attempts:
\* with the requests of a user handled one after the other, whenever 5 or more
\* verifyOTP calls have failed since the last successful verification or lock
\* expiry, the account has been locked.
C34_ResendGivesNoMoreAttempts ==
    (~otpOverlap /\ otpFails >= MAX_ATTEMPTS) => profile.twofa_locked_until # Null

\* C31: one call to connect() makes at most maxReconnectAttempts connection
\* attempts, and the wait after its k-th consecutive failure is
\* min(1000 * 2^k, 30000) ms.
C31_ConnectIsBounded ==
    \A c \in Callers :
        /\ tries[c] <= MAX_RECONNECT
        /\ writeCall[c] = "backoff" => wait[c] = Min(1000 * 2 ^ tries[c], 30000)

\* C32: with several callers in write() while the client is disconnected, at most
\* one api.connect() is in flight at a time, and a caller's connect() raises only
\* after maxReconnectAttempts connection attempts of its own.
C32_SingleFlightOwnAttempts ==
    /\ Cardinality({c \in Callers : writeCall[c] = "api.connect"}) <= 1
    /\ \A c \in Callers :
          (writeCall[c] = "idle" /\ writeRet[c] = "max retries") => tries[c] = MAX_RECONNECT

\* the rows cycle c works with in the step it takes, when the step leaves it in flight
RowsInStep(c) == IF cyc[c].st = "fetch" THEN cyc'[c].rows ELSE cyc[c].rows

Listed(rows, n) == \E j \in 1..Len(rows) : rows[j].name = n

\* C33: a step of a cycle whose queue list does not hold entity n leaves n's
\* tracking entry and n's alerts rows as they are (no stage flag set, no end_time,
\* no dispatch counted) and calls checkAlert for no row of n.
C33_AbsentEntityUntouched ==
    [][\A c \in Cycles, n \in GponNames :
          (/\ Acts(c) /\ cyc[c].st # "idle" /\ cyc'[c].st # "idle"
           /\ ~Listed(RowsInStep(c), n)
           /\ n \in DOMAIN tracking /\ OpenRows(alerts, n) # {})
          => (/\ n \in DOMAIN tracking' /\ tracking'[n] = tracking[n]
              /\ RowsOfName(alerts', n) = RowsOfName(alerts, n)
              /\ \A i \in RowsOfName(alerts, n) : alerts'[i] = alerts[i] /\ sentFor'[i] = sentFor[i]
              /\ RowsOfName(alert_history', n) = RowsOfName(alert_history, n)
              /\ ~(InCheck(cyc'[c]) /\ cyc'[c].rows[cyc'[c].i].name = n))
      ]_vars

\* a cycle has called checkAlert for GPON-B from a list without GPON-A, at a time
\* when the first stage of GPON-A's open record was due
C33_Witness ==
    \E c \in Cycles :
        LET f == cyc[c]
        IN /\ f.st = "loop" /\ f.evald # {}
           /\ ~Listed(f.rows, "GPON-A")
           /\ "GPON-A" \in DOMAIN tracking
           /\ ~tracking["GPON-A"].alerted
           /\ f.now - tracking["GPON-A"].first >= alertDelayMs
           /\ f.stat["GPON-A"] = "Active"
           /\ OpenRows(alerts, "GPON-A") # {}

====
